---- MODULE Spec2Model ----
(***************************************************************************)
(* Quota-funded payment reconciliation of the VPS-to-Windows provisioning  *)
(* backend: the topup_transactions / orders / users.quota tables, the      *)
(* Express handlers that write them and the Tripay gateway they talk to.   *)
(*                                                                         *)
(* Every handler is an async function.  Each of its awaited database or    *)
(* gateway operations is one atomic step of the model, taken together with *)
(* the synchronous code that follows it up to the next await; steps of     *)
(* different requests interleave freely, as they do on the Node event loop *)
(* with a shared database handle.                                          *)
(***************************************************************************)
EXTENDS Integers, Sequences, FiniteSets, TLC

(***************************************************************************)
(* Bounds of the model.                                                    *)
(***************************************************************************)
NumUsers == 2
MaxQuantity == 2
MaxInitiates == 2
BackgroundInitiates == 1
MaxCallbacks == 2
BackgroundCallbacks == 1
MaxCreates == 2
BackgroundCreates == 1
MaxOrderCallbacks == 2
BackgroundOrderCallbacks == 1
MaxInstalls == 2
BackgroundInstalls == 1
MaxAdminOps == 1
MaxQuotes == 1
MaxSyncs == 2
MaxPatches == 1
MaxLimitCalls == 4
MaxRequests == 2
WindowSeconds == 2
MaxAmount == 2
MaxClock == 1
MaxRand == 0
InitialQuota == 1

Users == 1..NumUsers

(***************************************************************************)
(* Values.  A nullable column or field holds NULL or a one-field record.   *)
(***************************************************************************)
NULL == [null |-> TRUE]

Ref(n) == [ref |-> n]
CheckoutUrl(n) == [checkout |-> n]
PayUrl(n) == [pay |-> n]
PayCode(n) == [code |-> n]

ProductPrice == 5000
ExpirySeconds == 86400

PaymentMethods == {"QRIS"}

(***************************************************************************)
(* Pricing of POST /topup: the tier is chosen on the whole quantity, the   *)
(* code's fractions 0.12 .. 0.30 are kept as whole percents.               *)
(***************************************************************************)
\* One rate for every discounted quantity.
FlatDiscountPercent(quantity) == IF quantity < 5 THEN 0 ELSE 12

DiscountPercent(quantity) ==
    IF quantity < 5 THEN 0
    ELSE IF quantity = 5 THEN 12
    ELSE IF quantity > 5 /\ quantity <= 10 THEN 20
    ELSE IF quantity >= 11 /\ quantity <= 19 THEN 25
    ELSE 30

TotalAmount(quantity) == quantity * ProductPrice
\* The discount taken on one unit instead of on the subtotal.
DiscountOnUnitPrice(quantity) == (ProductPrice * DiscountPercent(quantity)) \div 100

DiscountAmount(quantity) == (TotalAmount(quantity) * DiscountPercent(quantity)) \div 100
FinalAmount(quantity) == TotalAmount(quantity) - DiscountAmount(quantity)

(***************************************************************************)
(* Merchant references.  generateMerchantRef renders                       *)
(* INV{timestamp}{random}_U{userId}_Q{quantity}; POST /create renders      *)
(* INV/{user_id}/{sku}-{quantity}.  A reference is kept as the record of   *)
(* the parts it is rendered from; NoMerchantRef is an absent field.        *)
(***************************************************************************)
NoMerchantRef == [fmt |-> "none"]

generateMerchantRef(userId, quantity, timestamp, random) ==
    [fmt |-> "topup", ts |-> timestamp, rand |-> random, uid |-> userId, qty |-> quantity]

\* merchantRef.match(/_U(\d+)_Q(\d+)/): the match, or NULL when there is none.
MatchUserQuantity(merchantRef) ==
    IF merchantRef.fmt = "topup"
    THEN [uid |-> merchantRef.uid, qty |-> merchantRef.qty]
    ELSE NULL

(***************************************************************************)
(* JSON and HMAC.  A raw body is its content together with its byte-level  *)
(* formatting; express.json() parses it into req.body, and JSON.stringify  *)
(* renders an object in the one compact form.  Hmac is an ideal keyed      *)
(* hash: equal digests only for equal key and message.                     *)
(***************************************************************************)
Formats == {"compact", "spaced"}
RawBody(content, fmt) == [content |-> content, fmt |-> fmt]
JSONparse(raw) == raw.content
JSONstringify(obj) == [content |-> obj, fmt |-> "compact"]

PrivateKey == "TRIPAY_PRIVATE_KEY"
OtherKey == "other-key"
Hmac(key, msg) == [key |-> key, msg |-> msg]

validateCallback(signature, data) == signature = Hmac(PrivateKey, JSONstringify(data))

CallbackContent(reference, merchantRef, status, closed) ==
    [reference |-> reference, merchant_ref |-> merchantRef, status |-> status,
     is_closed_payment |-> closed]


\* String.prototype.toUpperCase on the status strings the model sends.
toUpperCase(s) ==
    CASE s = "paid" -> "PAID"
      [] s = "expired" -> "EXPIRED"
      [] s = "failed" -> "FAILED"
      [] OTHER -> s

VARIABLES
    quota,      \* users.quota, by user id
    active,     \* users.is_active = 1, by user id
    topup,      \* topup_transactions, row id = index
    orders,     \* orders, row id = index
    installs,   \* number of install_data rows, by user id
    gw,         \* the gateway's transactions, reference Ref(index)
    now,        \* Date.now()
    ini,        \* POST /user/topup requests
    cb,         \* POST /user/payment/callback requests
    crt,        \* POST /payment/create requests
    ocb,        \* POST /payment/callback requests
    ins,        \* POST /user/install requests
    adm,        \* POST /admin/users/:id/quota requests
    poll,       \* the TopupModal of the frontend
    qte,        \* POST /user/topup/calculate requests
    methods,    \* payment_methods, row id = index
    syn,        \* POST /admin/payment-methods/sync and GET /user/payment-methods/enabled
    pat,        \* PATCH /admin/payment-methods/:code requests
    rl,         \* the rate limiter's counter key in Redis
    lim         \* RateLimiter.checkRateLimit calls for that key

vars == <<quota, active, topup, orders, installs, gw, now, ini, cb, crt, ocb, ins, adm, poll, qte,
          methods, syn, pat, rl, lim>>

(***************************************************************************)
(* Requests.  A slot is idle until its request arrives, then holds the     *)
(* handler's locals and its position, and at "done" the status code of the *)
(* answer together with what the handler did.                              *)
(***************************************************************************)
IdleInitiate ==
    [pc |-> "idle", user |-> 0, quantity |-> 0, merchantRef |-> NoMerchantRef,
     lastID |-> 0, gwResponse |-> NULL, gwCalls |-> 0, code |-> 0, data |-> NULL]

IdleCallback ==
    [pc |-> "idle", raw |-> NULL, signature |-> NULL, event |-> "", txId |-> 0,
     txStatus |-> "", userId |-> 0, quantity |-> 0, currentQuota |-> 0, code |-> 0]

IdleCreate ==
    [pc |-> "idle", user |-> 0, quantity |-> 0, merchantRef |-> NoMerchantRef,
     gwResponse |-> NULL, code |-> 0]

IdleInstall == [pc |-> "idle", user |-> 0, currentQuota |-> 0, code |-> 0]

IdleAdmin ==
    [pc |-> "idle", id |-> 0, amount |-> 0, operation |-> "", oldQuota |-> 0, code |-> 0]

IdlePoll == [pc |-> "closed", reference |-> NULL, seen |-> NULL]

\* A quote request.  The body's quantity is any JSON number; it is held as a count
\* of halves, so that 3 halves is the quantity 1.5 and 2 halves the quantity 1.
\* A sync of the payment methods, by the administrator or by the listing of a user:
\* the channels fetched, the position of the loop in them and what the SELECT found.
IdleSync ==
    [pc |-> "idle", kind |-> "", channels |-> <<>>, index |-> 0, existingMethod |-> FALSE,
     syncedCount |-> 0, newCount |-> 0, code |-> 0]

\* The counter key does not exist.
NoKey == [exists |-> FALSE, value |-> 0, ttl |-> 0]

IdleLimit == [pc |-> "idle", current |-> NULL, allowed |-> FALSE, remaining |-> 0, ttl |-> 0]

IdlePatch ==
    [pc |-> "idle", methodCode |-> "", is_enabled |-> FALSE, channels |-> <<>>, code |-> 0]

\* cents is products.price, in hundredths, as the handler reads it.
IdleQuote == [pc |-> "idle", halves |-> 0, cents |-> 0, code |-> 0, data |-> NULL]

\* Requests arrive in slot order.
NextIdle(slots, i) == slots[i].pc = "idle" /\ \A j \in 1..(i - 1) : slots[j].pc # "idle"

\* The handler answers without having credited anything.
Answered(slot, code) ==
    [slot EXCEPT !.pc = "done", !.code = code, !.userId = 0, !.quantity = 0,
                 !.currentQuota = 0]

\* The handler answers after it credited slot.quantity to slot.userId.
AnsweredCredited(slot, code) == [slot EXCEPT !.pc = "done", !.code = code, !.currentQuota = 0]

\* The state in which every user holds the balance q and no request is in flight.
InitWith(q) ==
    /\ quota = [u \in Users |-> q]
    /\ active = [u \in Users |-> TRUE]
    /\ topup = <<>>
    /\ orders = <<>>
    /\ installs = [u \in Users |-> 0]
    /\ gw = <<>>
    /\ now = 0
    /\ ini = [i \in 1..MaxInitiates |-> IdleInitiate]
    /\ cb = [c \in 1..MaxCallbacks |-> IdleCallback]
    /\ crt = [i \in 1..MaxCreates |-> IdleCreate]
    /\ ocb = [c \in 1..MaxOrderCallbacks |-> IdleCallback]
    /\ ins = [i \in 1..MaxInstalls |-> IdleInstall]
    /\ adm = [i \in 1..MaxAdminOps |-> IdleAdmin]
    /\ poll = IdlePoll
    /\ qte = [i \in 1..MaxQuotes |-> IdleQuote]
    /\ methods = <<>>
    /\ syn = [i \in 1..MaxSyncs |-> IdleSync]
    /\ pat = [i \in 1..MaxPatches |-> IdlePatch]
    /\ rl = NoKey
    /\ lim = [i \in 1..MaxLimitCalls |-> IdleLimit]

\* users.quota is INTEGER DEFAULT 0: new users hold nothing.
Init == InitWith(0)

\* Users that an administrator has granted InitialQuota before.
InitFunded == InitWith(InitialQuota)

Tick ==
    /\ now < MaxClock
    /\ now' = now + 1
    /\ UNCHANGED <<quota, active, topup, orders, installs, gw, ini, cb, crt, ocb, ins, adm, poll, qte, methods, syn, pat, rl, lim>>

(***************************************************************************)
(* The gateway.                                                            *)
(***************************************************************************)
\* The answer of a successful transaction/create: the new transaction is UNPAID.
CreateResponse(n, expiry) ==
    [reference |-> Ref(n), pay_url |-> PayUrl(n), checkout_url |-> CheckoutUrl(n),
     pay_code |-> PayCode(n), status |-> "UNPAID", expired_time |-> [at |-> expiry]]

GatewayCreate(merchantRef) == Append(gw, [merchant_ref |-> merchantRef, status |-> "UNPAID"])

\* createTransaction throws: a transport error, or success = false in the answer.
GatewayErrors == {"transport", "rejected"}

\* The customer pays transaction n at the gateway.
GatewayPay(n) ==
    /\ n \in 1..Len(gw)
    /\ gw[n].status = "UNPAID"
    /\ gw' = [gw EXCEPT ![n].status = "PAID"]
    /\ UNCHANGED <<quota, active, topup, orders, installs, now, ini, cb, crt, ocb, ins, adm, poll, qte, methods, syn, pat, rl, lim>>

(***************************************************************************)
(* POST /user/topup (Initiate).                                            *)
(***************************************************************************)
NewTopupRow(id, userId, merchantRef, quantity, paymentMethod) ==
    [id |-> id, user_id |-> userId, reference |-> NULL, merchant_ref |-> merchantRef,
     amount |-> ProductPrice, quantity |-> quantity,
     total_amount |-> TotalAmount(quantity),
     discount_percentage |-> DiscountPercent(quantity),
     discount_amount |-> DiscountAmount(quantity),
     final_amount |-> FinalAmount(quantity),
     payment_method |-> paymentMethod, payment_url |-> NULL, checkout_url |-> NULL,
     pay_code |-> NULL, status |-> "PENDING", expired_time |-> NULL, paid_at |-> NULL]

\* validateRequest(topupSchema): quantity is a number of at least 1.
TopupSchemaOk(quantity) == quantity >= 1

\* The request fails validation: 400, nothing is read or written.
InitiateInvalid(i, userId, quantity) ==
    /\ NextIdle(ini, i)
    /\ ~TopupSchemaOk(quantity)
    /\ ini' = [ini EXCEPT ![i] = [IdleInitiate EXCEPT !.pc = "done", !.user = userId,
                                   !.quantity = quantity, !.code = 400]]
    /\ UNCHANGED <<quota, active, topup, orders, installs, gw, now, cb, crt, ocb, ins, adm, poll, qte, methods, syn, pat, rl, lim>>

\* The request is priced, its merchant_ref generated and its PENDING row inserted;
\* merchant_ref is UNIQUE, so a second row with the same reference makes the INSERT
\* throw and the error handler answer 500.
InitiateInsert(i, userId, quantity, paymentMethod, random) ==
    /\ NextIdle(ini, i)
    /\ TopupSchemaOk(quantity)
    /\ LET merchantRef == generateMerchantRef(userId, quantity, now, random)
           id == Len(topup) + 1
       IN IF \E k \in 1..Len(topup) : topup[k].merchant_ref = merchantRef
          THEN /\ ini' = [ini EXCEPT ![i] = [IdleInitiate EXCEPT !.pc = "done",
                              !.user = userId, !.quantity = quantity,
                              !.merchantRef = merchantRef, !.code = 500]]
               /\ UNCHANGED topup
          ELSE /\ topup' = Append(topup, NewTopupRow(id, userId, merchantRef, quantity,
                                                     paymentMethod))
               /\ ini' = [ini EXCEPT ![i] = [IdleInitiate EXCEPT !.pc = "gateway",
                              !.user = userId, !.quantity = quantity,
                              !.merchantRef = merchantRef, !.lastID = id]]
    /\ UNCHANGED <<quota, active, orders, installs, gw, now, cb, crt, ocb, ins, adm, poll, qte, methods, syn, pat, rl, lim>>

\* tripayService.createTransaction succeeds.
InitiateGatewayOk(i) ==
    /\ ini[i].pc = "gateway"
    /\ gw' = GatewayCreate(ini[i].merchantRef)
    /\ ini' = [ini EXCEPT ![i].pc = "update",
                          ![i].gwCalls = @ + 1,
                          ![i].gwResponse = CreateResponse(Len(gw) + 1, now + ExpirySeconds)]
    /\ UNCHANGED <<quota, active, topup, orders, installs, now, cb, crt, ocb, ins, adm, poll, qte, methods, syn, pat, rl, lim>>

\* tripayService.createTransaction throws.
InitiateGatewayFail(i, error) ==
    /\ ini[i].pc = "gateway"
    /\ ini' = [ini EXCEPT ![i].pc = "markFailed",
                          ![i].gwCalls = @ + 1,
                          ![i].gwResponse = [error |-> error]]
    /\ UNCHANGED <<quota, active, topup, orders, installs, gw, now, cb, crt, ocb, ins, adm, poll, qte, methods, syn, pat, rl, lim>>

\* An UPDATE that stores the reference and nothing else.
AttachReferenceOnly(row, data) == [row EXCEPT !.reference = data.reference]

\* UPDATE topup_transactions SET reference, payment_url, checkout_url, pay_code,
\* status, expired_time WHERE id = lastID.
AttachGatewayInfo(row, data) ==
    [row EXCEPT !.reference = data.reference, !.payment_url = data.pay_url,
                !.checkout_url = data.checkout_url, !.pay_code = data.pay_code,
                !.status = data.status, !.expired_time = data.expired_time]

\* The data of the 200 answer of POST /user/topup.
TopupResponseData(slot) ==
    [transaction_id |-> slot.lastID, reference |-> slot.gwResponse.reference,
     merchant_ref |-> slot.merchantRef, quantity |-> slot.quantity,
     checkout_url |-> slot.gwResponse.checkout_url,
     pay_code |-> slot.gwResponse.pay_code, status |-> slot.gwResponse.status,
     expired_time |-> slot.gwResponse.expired_time]

InitiateUpdate(i) ==
    /\ ini[i].pc = "update"
    /\ topup' = [topup EXCEPT ![ini[i].lastID] = AttachGatewayInfo(@, ini[i].gwResponse)]
    /\ ini' = [ini EXCEPT ![i].pc = "done", ![i].code = 200,
                          ![i].data = TopupResponseData(ini[i])]
    /\ UNCHANGED <<quota, active, orders, installs, gw, now, cb, crt, ocb, ins, adm, poll, qte, methods, syn, pat, rl, lim>>

\* A catch block that answers without writing the row.
LeaveUnmarked(row) == row

\* catch (tripayError): UPDATE ... SET status = 'FAILED' WHERE id = lastID, then 500.
MarkFailed(row) == [row EXCEPT !.status = "FAILED"]

InitiateMarkFailed(i) ==
    /\ ini[i].pc = "markFailed"
    /\ topup' = [topup EXCEPT ![ini[i].lastID] = MarkFailed(@)]
    /\ ini' = [ini EXCEPT ![i].pc = "done", ![i].code = 500,
                          ![i].data = ini[i].gwResponse]
    /\ UNCHANGED <<quota, active, orders, installs, gw, now, cb, crt, ocb, ins, adm, poll, qte, methods, syn, pat, rl, lim>>

(***************************************************************************)
(* UserService quota methods.                                              *)
(***************************************************************************)
\* SELECT quota FROM users WHERE id = ? AND is_active = 1; 0 when there is no row.
getUserQuota(userId) == IF userId \in Users /\ active[userId] THEN quota[userId] ELSE 0

\* UPDATE users SET quota = ? WHERE id = ?
updateUserQuota(userId, newQuota) ==
    IF userId \in Users THEN [quota EXCEPT ![userId] = newQuota] ELSE quota

\* decrementUserQuota: if (currentQuota < amount) return false
EnoughQuota(currentQuota, amount) == ~(currentQuota < amount)

(***************************************************************************)
(* POST /user/payment/callback (topup callback).                           *)
(***************************************************************************)
Body(slot) == JSONparse(slot.raw)

\* db.get('SELECT * FROM topup_transactions WHERE reference = ?'): the first row's id,
\* 0 when no row matches.  NULL = NULL is not true in SQL.
FindByReference(reference) ==
    LET hits == {k \in 1..Len(topup) : reference # NULL /\ topup[k].reference = reference}
    IN IF hits = {} THEN 0 ELSE CHOOSE k \in hits : \A j \in hits : k <= j

\* The signature check, before any await.
PaymentCallbackReceive(c, raw, signature) ==
    /\ NextIdle(cb, c)
    /\ cb' = [cb EXCEPT ![c] =
                IF validateCallback(signature, JSONparse(raw))
                THEN [IdleCallback EXCEPT !.pc = "select", !.raw = raw,
                                          !.signature = signature]
                ELSE [IdleCallback EXCEPT !.pc = "done", !.raw = raw,
                                          !.signature = signature, !.code = 400]]
    /\ UNCHANGED <<quota, active, topup, orders, installs, gw, now, ini, crt, ocb, ins, adm, poll, qte, methods, syn, pat, rl, lim>>

\* The user and the quantity the handler credits: those matched in the payload's
\* merchant_ref (the row's when the payload has none), else the row's.
CreditTarget(transaction, payloadRef) ==
    LET merchantRef == IF payloadRef # NoMerchantRef THEN payloadRef
                       ELSE transaction.merchant_ref
        userMatch == MatchUserQuantity(merchantRef)
    IN IF userMatch # NULL
       THEN [userId |-> userMatch.uid, quantity |-> userMatch.qty]
       ELSE [userId |-> transaction.user_id, quantity |-> transaction.quantity]

\* The SELECT by reference, then the parse of merchant_ref.
PaymentCallbackSelect(c) ==
    /\ cb[c].pc = "select"
    /\ LET id == FindByReference(Body(cb[c]).reference)
       IN IF id = 0
          THEN cb' = [cb EXCEPT ![c] = Answered(cb[c], 404)]
          ELSE LET target == CreditTarget(topup[id], Body(cb[c]).merchant_ref)
               IN cb' = [cb EXCEPT ![c].pc = "update", ![c].txId = id,
                                   ![c].txStatus = topup[id].status,
                                   ![c].userId = target.userId,
                                   ![c].quantity = target.quantity]
    /\ UNCHANGED <<quota, active, topup, orders, installs, gw, now, ini, crt, ocb, ins, adm, poll, qte, methods, syn, pat, rl, lim>>

\* An UPDATE that stamps paid_at whatever the status is.
StampCallbackStatus(row, status, at) ==
    [row EXCEPT !.status = status, !.paid_at = [at |-> at]]

\* UPDATE topup_transactions SET status = ?, paid_at = ? WHERE reference = ?
SetCallbackStatus(row, status, at) ==
    [row EXCEPT !.status = status,
                !.paid_at = IF status = "PAID" THEN [at |-> at] ELSE NULL]

PaymentCallbackUpdate(c) ==
    /\ cb[c].pc = "update"
    /\ topup' = [k \in 1..Len(topup) |->
                    IF topup[k].reference = Body(cb[c]).reference
                    THEN SetCallbackStatus(topup[k], Body(cb[c]).status, now)
                    ELSE topup[k]]
    /\ cb' = IF Body(cb[c]).status = "PAID"
             THEN [cb EXCEPT ![c].pc = "getQuota"]
             ELSE [cb EXCEPT ![c] = Answered(cb[c], 200)]
    /\ UNCHANGED <<quota, active, orders, installs, gw, now, ini, crt, ocb, ins, adm, poll, qte, methods, syn, pat, rl, lim>>

\* incrementUserQuota: const currentQuota = await this.getUserQuota(userId)
PaymentCallbackGetQuota(c) ==
    /\ cb[c].pc = "getQuota"
    /\ cb' = [cb EXCEPT ![c].pc = "updateQuota",
                        ![c].currentQuota = getUserQuota(cb[c].userId)]
    /\ UNCHANGED <<quota, active, topup, orders, installs, gw, now, ini, crt, ocb, ins, adm, poll, qte, methods, syn, pat, rl, lim>>

\* incrementUserQuota: await this.updateUserQuota(userId, currentQuota + amount)
PaymentCallbackUpdateQuota(c) ==
    /\ cb[c].pc = "updateQuota"
    /\ quota' = updateUserQuota(cb[c].userId, cb[c].currentQuota + cb[c].quantity)
    /\ cb' = [cb EXCEPT ![c] = AnsweredCredited(cb[c], 200)]
    /\ UNCHANGED <<active, topup, orders, installs, gw, now, ini, crt, ocb, ins, adm, poll, qte, methods, syn, pat, rl, lim>>

(***************************************************************************)
(* POST /payment/create (generic orders flow).                             *)
(***************************************************************************)
Skus == {"QUOTA"}

\* `INV/${user_id}/${sku}-${quantity}`
orderMerchantRef(userId, sku, quantity) ==
    [fmt |-> "order", uid |-> userId, sku |-> sku, qty |-> quantity]

\* parseMerchantRef(mref).userId: parts[1] of mref.split('/'), undefined when the
\* reference has no '/': 0 stands for undefined, which equals no uid in SQL.
parseMerchantRefUserId(mref) == IF mref.fmt = "order" THEN mref.uid ELSE 0

NewOrderRow(id, userId, merchantRef, quantity) ==
    [id |-> id, uid |-> userId, no_ref |-> NULL, merchant_ref |-> merchantRef,
     status |-> "processing", quantity |-> quantity, paid_at |-> NULL]

\* The merchant reference is built and createTransaction called.
CreateReceive(i, userId, sku, quantity) ==
    /\ NextIdle(crt, i)
    /\ crt' = [crt EXCEPT ![i] = [IdleCreate EXCEPT !.pc = "gateway", !.user = userId,
                  !.quantity = quantity,
                  !.merchantRef = orderMerchantRef(userId, sku, quantity)]]
    /\ UNCHANGED <<quota, active, topup, orders, installs, gw, now, ini, cb, ocb, ins, adm, poll, qte, methods, syn, pat, rl, lim>>

CreateGatewayOk(i) ==
    /\ crt[i].pc = "gateway"
    /\ gw' = GatewayCreate(crt[i].merchantRef)
    /\ crt' = [crt EXCEPT ![i].pc = "insert",
                          ![i].gwResponse = CreateResponse(Len(gw) + 1, now + ExpirySeconds)]
    /\ UNCHANGED <<quota, active, topup, orders, installs, now, ini, cb, ocb, ins, adm, poll, qte, methods, syn, pat, rl, lim>>

CreateGatewayFail(i, error) ==
    /\ crt[i].pc = "gateway"
    /\ crt' = [crt EXCEPT ![i].pc = "done", ![i].code = 500,
                          ![i].gwResponse = [error |-> error]]
    /\ UNCHANGED <<quota, active, topup, orders, installs, gw, now, ini, cb, ocb, ins, adm, poll, qte, methods, syn, pat, rl, lim>>

\* INSERT INTO orders; orders.merchant_ref is UNIQUE, a duplicate throws and the
\* handler answers 500.
CreateInsert(i) ==
    /\ crt[i].pc = "insert"
    /\ IF \E k \in 1..Len(orders) : orders[k].merchant_ref = crt[i].merchantRef
       THEN /\ crt' = [crt EXCEPT ![i].pc = "done", ![i].code = 500]
            /\ UNCHANGED orders
       ELSE /\ orders' = Append(orders, NewOrderRow(Len(orders) + 1, crt[i].user,
                                                    crt[i].merchantRef, crt[i].quantity))
            /\ crt' = [crt EXCEPT ![i].pc = "done", ![i].code = 200]
    /\ UNCHANGED <<quota, active, topup, installs, gw, now, ini, cb, ocb, ins, adm, poll, qte, methods, syn, pat, rl, lim>>

(***************************************************************************)
(* POST /payment/callback (generic orders callback).                       *)
(***************************************************************************)
\* The synchronous part of the handler: signature, event header, closed-payment
\* flag; parseMerchantRef throws on a payload without merchant_ref (500).
OrderCallbackCode(raw, signature, event) ==
    LET data == JSONparse(raw)
    IN IF signature # Hmac(PrivateKey, JSONstringify(data)) THEN 400
       ELSE IF event # "payment_status" THEN 400
       ELSE IF data.is_closed_payment # 1 THEN 400
       ELSE IF data.merchant_ref = NoMerchantRef THEN 500
       ELSE 0

OrderCallbackReceive(c, raw, signature, event) ==
    /\ NextIdle(ocb, c)
    /\ LET code == OrderCallbackCode(raw, signature, event)
           request == [IdleCallback EXCEPT !.raw = raw, !.signature = signature,
                                           !.event = event]
       IN ocb' = [ocb EXCEPT ![c] =
                    IF code # 0
                    THEN [request EXCEPT !.pc = "done", !.code = code]
                    ELSE [request EXCEPT !.pc = "select"]]
    /\ UNCHANGED <<quota, active, topup, orders, installs, gw, now, ini, cb, crt, ins, adm, poll, qte, methods, syn, pat, rl, lim>>

\* A lookup by uid and merchant_ref alone, whatever the order's status.
FindOrder(userId, mref) ==
    LET hits == {k \in 1..Len(orders) :
                    /\ userId # 0
                    /\ orders[k].uid = userId
                    /\ orders[k].merchant_ref = mref}
    IN IF hits = {} THEN 0 ELSE CHOOSE k \in hits : \A j \in hits : k <= j

\* SELECT * FROM orders WHERE uid = ? AND merchant_ref = ? AND status = 'processing'
FindProcessingOrder(userId, mref) ==
    LET hits == {k \in 1..Len(orders) :
                    /\ userId # 0
                    /\ orders[k].uid = userId
                    /\ orders[k].merchant_ref = mref
                    /\ orders[k].status = "processing"}
    IN IF hits = {} THEN 0 ELSE CHOOSE k \in hits : \A j \in hits : k <= j

OrderStatus(slot) == toUpperCase(Body(slot).status)

OrderCallbackSelect(c) ==
    /\ ocb[c].pc = "select"
    /\ LET userId == parseMerchantRefUserId(Body(ocb[c]).merchant_ref)
           id == FindProcessingOrder(userId, Body(ocb[c]).merchant_ref)
       IN IF id = 0
          THEN ocb' = [ocb EXCEPT ![c] = Answered(ocb[c], 404)]
          ELSE IF OrderStatus(ocb[c]) \notin {"PAID", "EXPIRED", "FAILED"}
          THEN ocb' = [ocb EXCEPT ![c] = Answered(ocb[c], 400)]
          ELSE ocb' = [ocb EXCEPT ![c].pc = "update", ![c].txId = id,
                                  ![c].txStatus = orders[id].status,
                                  ![c].userId = userId,
                                  ![c].quantity = orders[id].quantity]
    /\ UNCHANGED <<quota, active, topup, orders, installs, gw, now, ini, cb, crt, ins, adm, poll, qte, methods, syn, pat, rl, lim>>

\* UPDATE orders SET status = ? (and no_ref, paid_at for PAID) WHERE id = ?
SetOrderStatus(row, status, reference, at) ==
    IF status = "PAID"
    THEN [row EXCEPT !.status = "paid", !.no_ref = reference, !.paid_at = [at |-> at]]
    ELSE IF status = "EXPIRED" THEN [row EXCEPT !.status = "expired"]
    ELSE [row EXCEPT !.status = "failed"]

OrderCallbackUpdate(c) ==
    /\ ocb[c].pc = "update"
    /\ orders' = [orders EXCEPT ![ocb[c].txId] =
                     SetOrderStatus(@, OrderStatus(ocb[c]), Body(ocb[c]).reference, now)]
    /\ ocb' = IF OrderStatus(ocb[c]) = "PAID"
              THEN [ocb EXCEPT ![c].pc = "credit"]
              ELSE [ocb EXCEPT ![c] = Answered(ocb[c], 200)]
    /\ UNCHANGED <<quota, active, topup, installs, gw, now, ini, cb, crt, ins, adm, poll, qte, methods, syn, pat, rl, lim>>

\* UPDATE users SET quota = quota + ? WHERE id = ?
OrderCallbackCredit(c) ==
    /\ ocb[c].pc = "credit"
    /\ quota' = IF ocb[c].userId \in Users
                THEN [quota EXCEPT ![ocb[c].userId] = @ + ocb[c].quantity]
                ELSE quota
    /\ ocb' = [ocb EXCEPT ![c] = AnsweredCredited(ocb[c], 200)]
    /\ UNCHANGED <<active, topup, orders, installs, gw, now, ini, cb, crt, ins, adm, poll, qte, methods, syn, pat, rl, lim>>

(***************************************************************************)
(* POST /user/install.                                                     *)
(***************************************************************************)
InstallLimit == 3

\* SELECT admin FROM users: the users of the model are regular users.
IsAdminUser(userId) == FALSE

\* checkQuotaForInstallation: quota > 0, else 400.
InstallCheck(i, userId) ==
    /\ NextIdle(ins, i)
    /\ ins' = [ins EXCEPT ![i] =
                 IF getUserQuota(userId) > 0
                 THEN [IdleInstall EXCEPT !.pc = "count", !.user = userId]
                 ELSE [IdleInstall EXCEPT !.pc = "done", !.user = userId, !.code = 400]]
    /\ UNCHANGED <<quota, active, topup, orders, installs, gw, now, ini, cb, crt, ocb, adm, poll, qte, methods, syn, pat, rl, lim>>

\* SELECT COUNT(*) FROM install_data and SELECT admin: the install limit.
InstallCount(i) ==
    /\ ins[i].pc = "count"
    /\ ins' = [ins EXCEPT ![i] =
                 IF ~IsAdminUser(ins[i].user) /\ installs[ins[i].user] >= InstallLimit
                 THEN [@ EXCEPT !.pc = "done", !.code = 400]
                 ELSE [@ EXCEPT !.pc = "getQuota"]]
    /\ UNCHANGED <<quota, active, topup, orders, installs, gw, now, ini, cb, crt, ocb, adm, poll, qte, methods, syn, pat, rl, lim>>

\* decrementUserQuota(userId, 1): the read and the comparison.
InstallGetQuota(i) ==
    /\ ins[i].pc = "getQuota"
    /\ LET currentQuota == getUserQuota(ins[i].user)
       IN ins' = [ins EXCEPT ![i] =
                    IF EnoughQuota(currentQuota, 1)
                    THEN [@ EXCEPT !.pc = "updateQuota", !.currentQuota = currentQuota]
                    ELSE [@ EXCEPT !.pc = "done", !.code = 400]]
    /\ UNCHANGED <<quota, active, topup, orders, installs, gw, now, ini, cb, crt, ocb, adm, poll, qte, methods, syn, pat, rl, lim>>

\* decrementUserQuota(userId, 1): the write of currentQuota - 1.
InstallUpdateQuota(i) ==
    /\ ins[i].pc = "updateQuota"
    /\ quota' = updateUserQuota(ins[i].user, ins[i].currentQuota - 1)
    /\ ins' = [ins EXCEPT ![i].pc = "insert", ![i].currentQuota = 0]
    /\ UNCHANGED <<active, topup, orders, installs, gw, now, ini, cb, crt, ocb, adm, poll, qte, methods, syn, pat, rl, lim>>

\* INSERT INTO install_data, then 201.
InstallInsert(i) ==
    /\ ins[i].pc = "insert"
    /\ installs' = [installs EXCEPT ![ins[i].user] = @ + 1]
    /\ ins' = [ins EXCEPT ![i].pc = "done", ![i].code = 201]
    /\ UNCHANGED <<quota, active, topup, orders, gw, now, ini, cb, crt, ocb, adm, poll, qte, methods, syn, pat, rl, lim>>

(***************************************************************************)
(* Admin routes: POST /admin/users/:id/quota and PUT /admin/users/:id.     *)
(***************************************************************************)
\* if (!amount || isNaN(amount) || amount < 0): 400
AdminAmountOk(amount) == ~(amount = 0) /\ ~(amount < 0)

AdminQuotaReceive(i, id, amount, operation) ==
    /\ NextIdle(adm, i)
    /\ adm' = [adm EXCEPT ![i] =
                 IF AdminAmountOk(amount)
                 THEN [IdleAdmin EXCEPT !.pc = "select", !.id = id, !.amount = amount,
                                        !.operation = operation]
                 ELSE [IdleAdmin EXCEPT !.pc = "done", !.id = id, !.amount = amount,
                                        !.operation = operation, !.code = 400]]
    /\ UNCHANGED <<quota, active, topup, orders, installs, gw, now, ini, cb, crt, ocb, ins, poll, qte, methods, syn, pat, rl, lim>>

\* SELECT id, quota FROM users WHERE id = ?
AdminQuotaSelect(i) ==
    /\ adm[i].pc = "select"
    /\ adm' = [adm EXCEPT ![i].pc = "update", ![i].oldQuota = quota[adm[i].id]]
    /\ UNCHANGED <<quota, active, topup, orders, installs, gw, now, ini, cb, crt, ocb, ins, poll, qte, methods, syn, pat, rl, lim>>

AdminNewQuota(oldQuota, amount, operation) ==
    IF operation = "add" THEN oldQuota + amount ELSE amount

\* UPDATE users SET quota = newQuota WHERE id = ?
AdminQuotaUpdate(i) ==
    /\ adm[i].pc = "update"
    /\ quota' = [quota EXCEPT ![adm[i].id] =
                    AdminNewQuota(adm[i].oldQuota, adm[i].amount, adm[i].operation)]
    /\ adm' = [adm EXCEPT ![i].pc = "done", ![i].code = 200]
    /\ UNCHANGED <<active, topup, orders, installs, gw, now, ini, cb, crt, ocb, ins, poll, qte, methods, syn, pat, rl, lim>>

\* PUT /admin/users/:id: UPDATE users SET is_active = ?, ..., quota = ? with quota || 0.
PutUserQuota(q) == IF q = 0 THEN 0 ELSE q

AdminPutUser(i, id, isActive, q) ==
    /\ NextIdle(adm, i)
    /\ quota' = [quota EXCEPT ![id] = PutUserQuota(q)]
    /\ active' = [active EXCEPT ![id] = isActive]
    /\ adm' = [adm EXCEPT ![i] = [IdleAdmin EXCEPT !.pc = "done", !.id = id, !.amount = q,
                                                  !.operation = "put", !.code = 200]]
    /\ UNCHANGED <<topup, orders, installs, gw, now, ini, cb, crt, ocb, ins, poll, qte, methods, syn, pat, rl, lim>>

(***************************************************************************)
(* The frontend's TopupModal: while the QR dialog is open it fetches       *)
(* GET /user/topup/history every 5 seconds and looks for its reference.    *)
(***************************************************************************)
\* SELECT * FROM topup_transactions WHERE user_id = ? ORDER BY created_at DESC
RECURSIVE Reverse(_)
Reverse(s) == IF s = <<>> THEN <<>> ELSE Append(Reverse(Tail(s)), Head(s))

TopupHistory(userId) == Reverse(SelectSeq(topup, LAMBDA row : row.user_id = userId))

\* response.data.data.find(t => t.reference === paymentData.reference)?.status
FindStatus(history, reference) ==
    LET hits == {k \in 1..Len(history) : history[k].reference = reference}
    IN IF hits = {} THEN NULL
       ELSE [status |-> history[CHOOSE k \in hits : \A j \in hits : k <= j].status]

\* The QR dialog opens on the payment data of a successful Initiate.
PollOpen(i) ==
    /\ poll.pc = "closed"
    /\ poll.reference = NULL
    /\ ini[i].pc = "done"
    /\ ini[i].code = 200
    /\ poll' = [pc |-> "waiting", reference |-> ini[i].data.reference, seen |-> NULL]
    /\ UNCHANGED <<quota, active, topup, orders, installs, gw, now, ini, cb, crt, ocb, ins, adm, qte, methods, syn, pat, rl, lim>>

PollUser == topup[FindByReference(poll.reference)].user_id

\* checkPaymentStatus: the history request and the server's SELECT.
PollRequest ==
    /\ poll.pc = "waiting"
    /\ poll' = [poll EXCEPT !.pc = "response",
                            !.seen = FindStatus(TopupHistory(PollUser), poll.reference)]
    /\ UNCHANGED <<quota, active, topup, orders, installs, gw, now, ini, cb, crt, ocb, ins, adm, qte, methods, syn, pat, rl, lim>>

\* The answer arrives: PAID closes the dialog, anything else waits for the next tick
\* of the interval.
PollResponse ==
    /\ poll.pc = "response"
    /\ poll' = IF poll.seen # NULL /\ poll.seen.status = "PAID"
               THEN [poll EXCEPT !.pc = "closed"]
               ELSE [poll EXCEPT !.pc = "waiting"]
    /\ UNCHANGED <<quota, active, topup, orders, installs, gw, now, ini, cb, crt, ocb, ins, adm, qte, methods, syn, pat, rl, lim>>

(***************************************************************************)
(* Request inputs.                                                         *)
(***************************************************************************)
Rands == 0..MaxRand
QuantityInputs == 0..MaxQuantity
AmountInputs == (0 - 1)..MaxAmount

CallbackStatuses == {"PAID", "EXPIRED", "FAILED"}

\* A gateway reference no transaction was created under.
UnknownRef == Ref(0)

\* A topup reference naming another user than the one it was generated for.
OtherUserRef(merchantRef) == [merchantRef EXCEPT !.uid = (merchantRef.uid % NumUsers) + 1]

\* The contents of the callbacks the gateway signs: the reference of one of its
\* transactions with no merchant_ref, with the merchant_ref it was created under or
\* with one naming another user; or a reference that is none of its transactions'.
CallbackContents(statuses) ==
    {CallbackContent(Ref(n), m, s, 1) :
        n \in 1..Len(gw), s \in statuses,
        m \in {NoMerchantRef} \cup {gw[k].merchant_ref : k \in 1..Len(gw)}
                              \cup {OtherUserRef(gw[k].merchant_ref) : k \in 1..Len(gw)}}
    \cup {CallbackContent(UnknownRef, NoMerchantRef, s, 1) : s \in statuses}

\* A callback as the gateway sends it: the compact body, signed with the private key.
Signed(content) ==
    [raw |-> RawBody(content, "compact"),
     signature |-> Hmac(PrivateKey, RawBody(content, "compact"))]

SignedCallbacks == {Signed(content) : content \in CallbackContents(CallbackStatuses)}

\* The PAID callbacks of the gateway's transactions, with the merchant_ref they were
\* created under.
PaidCallbacks ==
    {Signed(CallbackContent(Ref(n), gw[n].merchant_ref, "PAID", 1)) : n \in 1..Len(gw)}

InitiateStep(N) ==
    \/ \E i \in 1..N, u \in Users, q \in QuantityInputs : InitiateInvalid(i, u, q)
    \/ \E i \in 1..N, u \in Users, q \in QuantityInputs, pm \in PaymentMethods, r \in Rands :
          InitiateInsert(i, u, q, pm, r)
    \/ \E i \in 1..N : InitiateGatewayOk(i)
    \/ \E i \in 1..N, e \in GatewayErrors : InitiateGatewayFail(i, e)
    \/ \E i \in 1..N : InitiateUpdate(i)
    \/ \E i \in 1..N : InitiateMarkFailed(i)

PaymentCallbackStep(N) ==
    \/ \E c \in 1..N : PaymentCallbackSelect(c)
    \/ \E c \in 1..N : PaymentCallbackUpdate(c)
    \/ \E c \in 1..N : PaymentCallbackGetQuota(c)
    \/ \E c \in 1..N : PaymentCallbackUpdateQuota(c)

CreateStep(N) ==
    \/ \E i \in 1..N, u \in Users, k \in Skus, q \in 1..MaxQuantity :
          CreateReceive(i, u, k, q)
    \/ \E i \in 1..N : CreateGatewayOk(i)
    \/ \E i \in 1..N, e \in GatewayErrors : CreateGatewayFail(i, e)
    \/ \E i \in 1..N : CreateInsert(i)

OrderCallbackStep ==
    \/ \E c \in 1..MaxOrderCallbacks : OrderCallbackSelect(c)
    \/ \E c \in 1..MaxOrderCallbacks : OrderCallbackUpdate(c)
    \/ \E c \in 1..MaxOrderCallbacks : OrderCallbackCredit(c)

InstallStep(N) ==
    \/ \E i \in 1..N, u \in Users : InstallCheck(i, u)
    \/ \E i \in 1..N : InstallCount(i)
    \/ \E i \in 1..N : InstallGetQuota(i)
    \/ \E i \in 1..N : InstallUpdateQuota(i)
    \/ \E i \in 1..N : InstallInsert(i)

AdminQuotaStep ==
    \/ \E i \in 1..MaxAdminOps, u \in Users, a \in AmountInputs, op \in {"add", "set"} :
          AdminQuotaReceive(i, u, a, op)
    \/ \E i \in 1..MaxAdminOps : AdminQuotaSelect(i)
    \/ \E i \in 1..MaxAdminOps : AdminQuotaUpdate(i)

(***************************************************************************)
(* SpecInitiate: concurrent Initiate requests, and a callback.             *)
(***************************************************************************)
NextInitiate ==
    \/ Tick
    \/ InitiateStep(MaxInitiates)
    \/ \E c \in 1..BackgroundCallbacks, m \in SignedCallbacks :
          PaymentCallbackReceive(c, m.raw, m.signature)
    \/ PaymentCallbackStep(BackgroundCallbacks)

SpecInitiate == Init /\ [][NextInitiate]_vars

(***************************************************************************)
(* SpecTopup: Initiate and the topup callbacks the gateway signs.          *)
(***************************************************************************)
NextTopup ==
    \/ Tick
    \/ InitiateStep(BackgroundInitiates)
    \/ \E c \in 1..MaxCallbacks, m \in SignedCallbacks :
          PaymentCallbackReceive(c, m.raw, m.signature)
    \/ PaymentCallbackStep(MaxCallbacks)

SpecTopup == Init /\ [][NextTopup]_vars

(***************************************************************************)
(* SpecLedger: payment credits and install consumption of users that hold  *)
(* a balance.  SpecQuota: every operation on users.quota, the admin's      *)
(* routes included, from new users.                                        *)
(***************************************************************************)
NextLedger ==
    \/ InitiateStep(BackgroundInitiates)
    \/ \E c \in 1..BackgroundCallbacks, m \in PaidCallbacks :
          PaymentCallbackReceive(c, m.raw, m.signature)
    \/ PaymentCallbackStep(BackgroundCallbacks)
    \/ InstallStep(BackgroundInstalls)

SpecLedger == InitFunded /\ [][NextLedger]_vars

NextQuota ==
    \/ NextLedger
    \/ AdminQuotaStep
    \/ \E i \in 1..MaxAdminOps, u \in Users, a \in BOOLEAN, q \in AmountInputs :
          AdminPutUser(i, u, a, q)

SpecQuota == Init /\ [][NextQuota]_vars

(***************************************************************************)
(* Claims about the topup callback (SpecTopup).                            *)
(***************************************************************************)
Terminal == {"PAID", "EXPIRED", "FAILED"}

CallbackSlots == 1..MaxCallbacks

\* The callback has credited: it answered after the quota write.
Credited(slot) == slot.pc = "done" /\ slot.code = 200 /\ slot.quantity > 0

\* The PAID deliveries for row id that found it UNPAID and carry its own merchant_ref
\* or none.
RacingPaidDeliveries(id) ==
    {c \in CallbackSlots :
        /\ cb[c].pc # "idle"
        /\ cb[c].txId = id
        /\ cb[c].txStatus = "UNPAID"
        /\ Body(cb[c]).status = "PAID"
        /\ Body(cb[c]).merchant_ref \in {NoMerchantRef, topup[id].merchant_ref}}

\* C1: when two or more signed PAID callbacks for one transaction are handled
\* concurrently (each found the row still UNPAID) and all of them have answered,
\* exactly one of them has credited and the owner's quota has grown by the
\* quantity once.
C1_ConcurrentPaidCallbacksCreditOnce ==
    \A id \in 1..Len(topup) :
        LET D == RacingPaidDeliveries(id)
        IN (/\ Cardinality(D) >= 2
            /\ \A c \in CallbackSlots : c \in D /\ cb[c].pc = "done")
           => /\ Cardinality({c \in D : Credited(cb[c])}) = 1
              /\ quota[topup[id].user_id] = topup[id].quantity

\* C2: a signed callback for a transaction that was already PAID, EXPIRED or FAILED
\* when the handler looked it up changes neither the transactions nor any quota, and
\* is answered with success.
C2_ReplayIsNoOp ==
    [][\A c \in CallbackSlots :
          (cb[c].pc \in {"update", "getQuota", "updateQuota"}
              /\ cb[c].txStatus \in Terminal /\ cb'[c] # cb[c])
          => /\ topup' = topup
             /\ quota' = quota
             /\ (cb'[c].pc = "done" => cb'[c].code = 200)]_vars

\* C3: once a transaction holds PAID, EXPIRED or FAILED, no step changes its status.
C3_TerminalStatusIsFinal ==
    [][\A k \in 1..Len(topup) :
          topup[k].status \in Terminal => topup'[k].status = topup[k].status]_vars

\* C6: the quota write of a PAID callback adds the row's quantity to what the handler
\* read for the row's user_id, and changes no other user's quota.
C6_CreditGoesToRowOwner ==
    [][\A c \in CallbackSlots :
          (cb[c].pc = "updateQuota" /\ cb'[c].pc = "done")
          => LET row == topup[cb[c].txId]
             IN \A u \in Users :
                   quota'[u] = IF u = row.user_id
                               THEN cb[c].currentQuota + row.quantity
                               ELSE quota[u]]_vars

(***************************************************************************)
(* Claims about Initiate (SpecInitiate).                                   *)
(***************************************************************************)
InitiateSlots == 1..MaxInitiates

\* The gateway call of this request threw.
GatewayFailed(slot) == "error" \in DOMAIN slot.gwResponse

\* A callback has written the status of row id.
CallbackWrote(id) ==
    \E c \in CallbackSlots :
        cb[c].txId = id /\ cb[c].pc \in {"getQuota", "updateQuota", "done"}

\* C9: an Initiate whose gateway call failed ends with its row FAILED and the gateway's
\* error as its 500 answer, after exactly one gateway call; no Initiate calls the
\* gateway twice, and no answered Initiate leaves its row PENDING.
C9_GatewayFailureMarksFailed ==
    \A i \in InitiateSlots :
        /\ ini[i].gwCalls <= 1
        /\ (ini[i].pc = "done" /\ ini[i].lastID # 0)
           => topup[ini[i].lastID].status # "PENDING"
        /\ (ini[i].pc = "done" /\ GatewayFailed(ini[i]))
           => /\ topup[ini[i].lastID].status = "FAILED"
              /\ ini[i].code = 500
              /\ ini[i].data = ini[i].gwResponse
              /\ ini[i].gwCalls = 1

\* An Initiate has answered 500 after a gateway failure; its row is FAILED.
C9_Witness ==
    \E i \in InitiateSlots :
        /\ ini[i].pc = "done" /\ GatewayFailed(ini[i]) /\ ini[i].code = 500
        /\ topup[ini[i].lastID].status = "FAILED"

LedgerCallbackSlots == 1..BackgroundCallbacks

LedgerInstallSlots == 1..BackgroundInstalls

\* The quantities the answered callbacks 1..n credited to user u.
RECURSIVE CreditsTo(_, _)
CreditsTo(u, n) ==
    IF n = 0 THEN 0
    ELSE CreditsTo(u, n - 1)
         + (IF Credited(cb[n]) /\ cb[n].userId = u THEN cb[n].quantity ELSE 0)

\* The install requests of user u that consumed one unit and answered 201.
Consumptions(u) ==
    Cardinality({i \in LedgerInstallSlots :
                    ins[i].pc = "done" /\ ins[i].code = 201 /\ ins[i].user = u})

\* No callback and no install request is in flight.
LedgerQuiescent ==
    /\ \A c \in LedgerCallbackSlots : cb[c].pc \in {"idle", "done"}
    /\ \A i \in LedgerInstallSlots : ins[i].pc \in {"idle", "done"}

\* C7: when payment credits and install consumptions of one user have all answered,
\* the user's balance is the initial balance plus the credited quantities minus one
\* per consumption, whatever the interleaving of their reads and writes was.
C7_NoLostQuotaUpdate ==
    \A u \in Users :
        (LedgerQuiescent /\ CreditsTo(u, BackgroundCallbacks) > 0 /\ Consumptions(u) > 0)
        => quota[u] = InitialQuota + CreditsTo(u, BackgroundCallbacks) - Consumptions(u)

\* C8: no user's balance is negative.
C8_QuotaNeverNegative == \A u \in Users : quota[u] >= 0

(***************************************************************************)
(* SpecPoll: Initiate, the customer's payment at the gateway and the       *)
(* polling dialog; the gateway delivers no callback.  The interval keeps   *)
(* firing while the dialog is open, and a handler that has the gateway's   *)
(* answer goes on to its UPDATE.                                           *)
(***************************************************************************)
NextPoll ==
    \/ Tick
    \/ InitiateStep(MaxInitiates)
    \/ \E n \in 1..MaxInitiates : GatewayPay(n)
    \/ \E i \in 1..MaxInitiates : PollOpen(i)
    \/ PollRequest
    \/ PollResponse

SpecPoll ==
    /\ Init
    /\ [][NextPoll]_vars
    /\ WF_vars(PollRequest)
    /\ WF_vars(PollResponse)
    /\ WF_vars(\E i \in 1..MaxInitiates : InitiateUpdate(i) \/ InitiateMarkFailed(i))

\* The gateway reports row k's transaction as PAID, the row is still UNPAID and the
\* dialog is polling for it.
PaidAtGatewayOnly(k) ==
    /\ k <= Len(topup)
    /\ topup[k].status = "UNPAID"
    /\ topup[k].reference # NULL
    /\ gw[topup[k].reference.ref].status = "PAID"
    /\ poll.pc # "closed"
    /\ poll.reference = topup[k].reference

\* Row k is PAID and its owner holds the quantity.
PaidAndCredited(k) ==
    /\ k <= Len(topup)
    /\ topup[k].status = "PAID"
    /\ quota[topup[k].user_id] >= topup[k].quantity

\* C4: when the gateway reports a transaction as PAID while its row is UNPAID and the
\* client polls for it, with no callback ever delivered, the row eventually becomes
\* PAID and the owner's quota holds the quantity.
C4_PollingEventuallyCredits ==
    \A k \in 1..MaxInitiates : PaidAtGatewayOnly(k) ~> PaidAndCredited(k)

(***************************************************************************)
(* SpecSignature: both callback handlers, with bodies and signatures that  *)
(* are not the gateway's.                                                  *)
(***************************************************************************)
\* The body the signature was made for said EXPIRED.
Tampered(content) == [content EXCEPT !.status = "EXPIRED"]

\* Signatures a request for this content may carry: by either key, over either
\* formatting of the content or of the content before it was tampered with.
Signatures(content) ==
    {Hmac(k, RawBody(c, f)) :
        k \in {PrivateKey, OtherKey}, c \in {content, Tampered(content)}, f \in Formats}

Deliveries(contents) ==
    {[raw |-> RawBody(content, f), signature |-> sig] :
        content \in contents, f \in Formats, sig \in UNION {Signatures(c) : c \in contents}}

\* PAID for the topup rows that hold a gateway reference.
TopupPaidContents ==
    {CallbackContent(topup[k].reference, topup[k].merchant_ref, "PAID", 1) :
        k \in {j \in 1..Len(topup) : topup[j].reference # NULL}}

\* PAID for the orders that are recorded, under the gateway's reference.
OrderPaidContents ==
    {CallbackContent(Ref(n), gw[n].merchant_ref, "PAID", 1) :
        n \in {j \in 1..Len(gw) :
                 \E k \in 1..Len(orders) : orders[k].merchant_ref = gw[j].merchant_ref}}

NextSignature ==
    \/ InitiateStep(BackgroundInitiates)
    \/ CreateStep(BackgroundCreates)
    \/ \E c \in 1..BackgroundCallbacks, m \in Deliveries(TopupPaidContents) :
          PaymentCallbackReceive(c, m.raw, m.signature)
    \/ PaymentCallbackStep(BackgroundCallbacks)
    \/ \E c \in 1..BackgroundOrderCallbacks, m \in Deliveries(OrderPaidContents) :
          OrderCallbackReceive(c, m.raw, m.signature, "payment_status")
    \/ OrderCallbackStep

SpecSignature == Init /\ [][NextSignature]_vars

\* The request's signature is not the HMAC of the body it arrived with.
BadSignature(slot) == slot.pc # "idle" /\ slot.signature # Hmac(PrivateKey, slot.raw)

\* A step of the request in slots[c], whose signature is bad, changes no row and no
\* quota, and if it answers, it answers 400.
RejectedStep(before, after) ==
    (BadSignature(after) /\ after # before)
    => /\ UNCHANGED <<quota, topup, orders, qte, methods, syn, pat>>
       /\ after.pc = "done" => after.code = 400

\* C5: a callback whose signature is not the HMAC-SHA256 of its body is answered 400
\* and changes no transaction, no order and no quota, in the topup callback handler
\* and in the orders callback handler.
C5_BadSignatureRejected ==
    [][/\ \A c \in 1..MaxCallbacks : RejectedStep(cb[c], cb'[c])
       /\ \A c \in 1..MaxOrderCallbacks : RejectedStep(ocb[c], ocb'[c])]_vars

(***************************************************************************)
(* SpecPayload: both callback handlers with the payloads the gateway may   *)
(* sign: any of its status strings, open and closed payments, references   *)
(* of transactions that have no local record.                              *)
(***************************************************************************)
StatusDomain == {"PENDING", "UNPAID", "PAID", "EXPIRED", "FAILED"}

\* A status of the gateway's vocabulary that is none of the local ones.
ForeignStatus == "REFUND"

\* A merchant reference in the orders format under which no order was created.
UnknownOrderRef == orderMerchantRef(1, "UNKNOWN", 1)

ClosedFlags == {0, 1}

\* Payloads for the topup handler: a stored gateway reference with the row's
\* merchant_ref or none, or an unknown reference.
TopupPayloads ==
    {CallbackContent(topup[k].reference, m, s, closed) :
        k \in {j \in 1..Len(topup) : topup[j].reference # NULL},
        m \in {NoMerchantRef} \cup {topup[j].merchant_ref : j \in 1..Len(topup)},
        s \in {"PAID", ForeignStatus}, closed \in ClosedFlags}
    \cup {CallbackContent(UnknownRef, NoMerchantRef, s, closed) :
            s \in {"PAID", ForeignStatus}, closed \in ClosedFlags}

\* Payloads for the orders handler: PAID for a recorded order, or for a transaction
\* that has no order, with or without a merchant_ref.
OrderPayloads ==
    {CallbackContent(Ref(n), gw[n].merchant_ref, "PAID", closed) :
        n \in {j \in 1..Len(gw) : gw[j].merchant_ref.fmt = "order"}, closed \in ClosedFlags}
    \cup {CallbackContent(UnknownRef, m, "PAID", closed) :
            m \in {NoMerchantRef, UnknownOrderRef}, closed \in ClosedFlags}

NextPayload ==
    \/ InitiateStep(BackgroundInitiates)
    \/ CreateStep(BackgroundCreates)
    \/ \E c \in 1..BackgroundCallbacks, content \in TopupPayloads :
          PaymentCallbackReceive(c, Signed(content).raw, Signed(content).signature)
    \/ PaymentCallbackStep(BackgroundCallbacks)
    \/ \E c \in 1..BackgroundOrderCallbacks, content \in OrderPayloads :
          OrderCallbackReceive(c, Signed(content).raw, Signed(content).signature,
                               "payment_status")
    \/ OrderCallbackStep

SpecPayload == Init /\ [][NextPayload]_vars

\* C11: the status of every topup transaction is one of PENDING, UNPAID, PAID,
\* EXPIRED, FAILED in every reachable state.
C11_StatusInDomain == \A k \in 1..Len(topup) : topup[k].status \in StatusDomain

\* The request in the slot carries a payload that is not a closed payment.
OpenPayment(slot) == slot.pc # "idle" /\ Body(slot).is_closed_payment # 1

\* C12: no step of a callback whose payload is not a closed payment changes a quota,
\* in the topup callback handler and in the orders callback handler.
C12_OpenPaymentNeverCredits ==
    [][/\ \A c \in 1..MaxCallbacks :
             (OpenPayment(cb[c]) /\ cb'[c] # cb[c]) => quota' = quota
       /\ \A c \in 1..MaxOrderCallbacks :
             (OpenPayment(ocb[c]) /\ ocb'[c] # ocb[c]) => quota' = quota]_vars

\* The request's signature is the gateway's and its payload is a closed payment.
SignedClosed(slot) ==
    /\ slot.signature = Hmac(PrivateKey, slot.raw)
    /\ Body(slot).is_closed_payment = 1

\* No topup row holds the payload's reference.
NoTopupRecord(slot) == FindByReference(Body(slot).reference) = 0

\* No order holds the payload's merchant_ref.
NoOrderRecord(slot) ==
    \A k \in 1..Len(orders) : orders[k].merchant_ref # Body(slot).merchant_ref

\* C13: a signed closed-payment callback for a transaction with no local record is
\* answered 404 by the step that answers it, and that step changes no transaction, no
\* order and no quota, in both handlers.
C13_UnknownTransactionNotFound ==
    [][/\ \A c \in 1..MaxCallbacks :
             (cb[c].pc # "done" /\ cb'[c].pc = "done"
                 /\ SignedClosed(cb'[c]) /\ NoTopupRecord(cb'[c]))
             => cb'[c].code = 404 /\ UNCHANGED <<quota, topup, orders, qte, methods, syn, pat>>
       /\ \A c \in 1..MaxOrderCallbacks :
             (ocb[c].pc # "done" /\ ocb'[c].pc = "done"
                 /\ SignedClosed(ocb'[c]) /\ NoOrderRecord(ocb'[c]))
             => ocb'[c].code = 404 /\ UNCHANGED <<quota, topup, orders>>]_vars

(***************************************************************************)
(* SpecExpiry: Initiate, the passing of the 24 hours of a checkout, and    *)
(* the client reading the topup history.                                   *)
(***************************************************************************)
\* More than the lifetime of a checkout passes.
ExpiryPasses ==
    /\ now <= MaxClock
    /\ now' = now + ExpirySeconds + 1
    /\ UNCHANGED <<quota, active, topup, orders, installs, gw, ini, cb, crt, ocb, ins, adm, poll, qte, methods, syn, pat, rl, lim>>

\* isTransactionPayable of the dashboard: UNPAID or PENDING and not yet expired.
isTransactionPayable(transaction, at) ==
    /\ transaction.status \in {"UNPAID", "PENDING"}
    /\ transaction.expired_time # NULL
    /\ transaction.expired_time.at > at

NextExpiry ==
    \/ Tick
    \/ ExpiryPasses
    \/ InitiateStep(MaxInitiates)
    \/ \E i \in 1..MaxInitiates : PollOpen(i)
    \/ PollRequest
    \/ PollResponse

SpecExpiry == Init /\ [][NextExpiry]_vars

\* The row the dialog polls for is stored as UNPAID and its expiry time has passed.
PolledRowOverdue ==
    /\ poll.pc = "waiting"
    /\ LET row == topup[FindByReference(poll.reference)]
       IN /\ row.status = "UNPAID"
          /\ row.expired_time.at < now
          /\ ~isTransactionPayable(row, now)

\* C14: a lookup of the topup history reports a row that is stored as UNPAID and
\* whose expiry time has passed as EXPIRED.
C14_LazyExpiryReported ==
    [][(PolledRowOverdue /\ poll'.pc = "response") => poll'.seen.status = "EXPIRED"]_vars

(***************************************************************************)
(* SpecRefs: the requests that generate a merchant reference: Initiate     *)
(* and the arrival of the orders flow's create, within one millisecond.    *)
(***************************************************************************)
NextRefs ==
    \/ InitiateStep(MaxInitiates)
    \/ \E i \in 1..MaxCreates, u \in Users, k \in Skus, q \in 1..MaxQuantity :
          CreateReceive(i, u, k, q)

SpecRefs == Init /\ [][NextRefs]_vars

\* The request in the slot has generated its merchant reference.
Generated(slot) == slot.pc # "idle" /\ slot.merchantRef # NoMerchantRef

\* C15: the merchant references generated by any two requests differ, in the topup
\* flow and in the orders flow, and no step changes the merchant_ref of a row.
C15_MerchantRefUnique ==
    [][/\ \A i, j \in 1..MaxInitiates :
             (i # j /\ Generated(ini'[i]) /\ Generated(ini'[j]))
             => ini'[i].merchantRef # ini'[j].merchantRef
       /\ \A i, j \in 1..MaxCreates :
             (i # j /\ Generated(crt'[i]) /\ Generated(crt'[j]))
             => crt'[i].merchantRef # crt'[j].merchantRef
       /\ \A k \in 1..Len(topup) : topup'[k].merchant_ref = topup[k].merchant_ref
       /\ \A k \in 1..Len(orders) : orders'[k].merchant_ref = orders[k].merchant_ref]_vars

(***************************************************************************)
(* Merchant references as the strings the code builds and parses.  A       *)
(* string is a sequence of one-character strings.                          *)
(***************************************************************************)
DigitChars == <<"0", "1", "2", "3", "4", "5", "6", "7", "8", "9">>

IsDigit(ch) == \E d \in 1..10 : DigitChars[d] = ch

DigitValue(ch) == (CHOOSE d \in 1..10 : DigitChars[d] = ch) - 1

\* `${n}` for a natural number n.
RECURSIVE Digits(_)
Digits(n) ==
    IF n < 10 THEN <<DigitChars[n + 1]>>
    ELSE Digits(n \div 10) \o <<DigitChars[(n % 10) + 1]>>

\* .toString().padStart(3, '0')
PadStart3(str) ==
    IF Len(str) >= 3 THEN str
    ELSE IF Len(str) = 2 THEN <<"0">> \o str
    ELSE <<"0", "0">> \o str

\* The number of digits of str from position i on.
RECURSIVE DigitRun(_, _)
DigitRun(str, i) ==
    IF i > Len(str) \/ ~IsDigit(str[i]) THEN 0 ELSE 1 + DigitRun(str, i + 1)

\* NaN, the result of parseInt on a string that starts with no digit.
NaN == 0 - 1

RECURSIVE DecimalValue(_)
DecimalValue(digits) ==
    IF digits = <<>> THEN 0
    ELSE 10 * DecimalValue(SubSeq(digits, 1, Len(digits) - 1))
         + DigitValue(digits[Len(digits)])

\* parseInt on a string without sign or blanks: the value of its leading digits.
parseInt(str) ==
    IF DigitRun(str, 1) = 0 THEN NaN ELSE DecimalValue(SubSeq(str, 1, DigitRun(str, 1)))

\* String.prototype.split(sep) for a one-character separator.
RECURSIVE Split(_, _)
Split(str, sep) ==
    IF \A k \in 1..Len(str) : str[k] # sep THEN <<str>>
    ELSE LET k == CHOOSE j \in 1..Len(str) :
                     str[j] = sep /\ \A h \in 1..(j - 1) : str[h] # sep
         IN <<SubSeq(str, 1, k - 1)>> \o Split(SubSeq(str, k + 1, Len(str)), sep)

\* The string of a merchant reference: INV{ts}{rand}_U{user}_Q{quantity} for a topup,
\* INV/{user}/{sku}-{quantity} for an order.
MerchantRefString(ref) ==
    IF ref.fmt = "topup"
    THEN <<"I", "N", "V">> \o Digits(ref.ts) \o PadStart3(Digits(ref.rand))
         \o <<"_", "U">> \o Digits(ref.uid) \o <<"_", "Q">> \o Digits(ref.qty)
    ELSE <<"I", "N", "V", "/">> \o Digits(ref.uid) \o <<"/">> \o ref.sku
         \o <<"-">> \o Digits(ref.qty)

\* str has a match of /_U(\d+)_Q(\d+)/ that starts at position i.
MatchesAt(str, i) ==
    LET d == DigitRun(str, i + 2)
    IN /\ i + 1 <= Len(str)
       /\ str[i] = "_" /\ str[i + 1] = "U"
       /\ d >= 1
       /\ i + 3 + d <= Len(str)
       /\ str[i + 2 + d] = "_" /\ str[i + 3 + d] = "Q"
       /\ DigitRun(str, i + 4 + d) >= 1

\* merchantRef.match(/_U(\d+)_Q(\d+)/) and parseInt of its two groups; NULL when
\* there is no match.
matchUserQuantityString(str) ==
    LET starts == {i \in 1..Len(str) : MatchesAt(str, i)}
    IN IF starts = {} THEN NULL
       ELSE LET i == CHOOSE j \in starts : \A h \in starts : j <= h
                d == DigitRun(str, i + 2)
            IN [uid |-> parseInt(SubSeq(str, i + 2, i + 1 + d)),
                qty |-> parseInt(SubSeq(str, i + 4 + d,
                                        i + 3 + d + DigitRun(str, i + 4 + d)))]

\* The item of one part of the reference: [code, qtyStr] = part.split('-'); no item
\* when the part has no '-' or code or qtyStr is empty.
ParseItems(part) ==
    LET pieces == Split(part, "-")
    IN IF Len(pieces) < 2 \/ pieces[1] = <<>> \/ pieces[2] = <<>> THEN <<>>
       ELSE <<[code |-> pieces[1], quantity |-> parseInt(pieces[2])]>>

RECURSIVE ParseParts(_, _)
ParseParts(parts, i) ==
    IF i > Len(parts) THEN <<>> ELSE ParseItems(parts[i]) \o ParseParts(parts, i + 1)

\* parseMerchantRef(mref): userId is the second part of mref.split('/'), the items
\* come from the parts after it.
parseMerchantRef(str) ==
    LET parts == Split(str, "/")
    IN [userId |-> IF Len(parts) >= 2 THEN parts[2] ELSE <<>>,
        items |-> ParseParts(parts, 3)]

(***************************************************************************)
(* SpecRoundTrip: the requests that generate a merchant reference, with    *)
(* quantities of one and two digits and SKUs with and without a '-'.       *)
(***************************************************************************)
RoundTripQuantities == {1, 10, 21}

RoundTripRands == {0, 45, 999}

RoundTripSkus == {<<"Q", "T">>, <<"W", "-", "P">>}

NextRoundTrip ==
    \/ Tick
    \/ \E i \in 1..MaxInitiates, u \in Users, q \in RoundTripQuantities,
          pm \in PaymentMethods, r \in RoundTripRands : InitiateInsert(i, u, q, pm, r)
    \/ \E i \in 1..MaxCreates, u \in Users, k \in RoundTripSkus, q \in RoundTripQuantities :
          CreateReceive(i, u, k, q)

SpecRoundTrip == Init /\ [][NextRoundTrip]_vars

\* The topup callback's pattern returns the user and the quantity of the request.
TopupRoundTrip(slot) ==
    matchUserQuantityString(MerchantRefString(slot.merchantRef))
        = [uid |-> slot.user, qty |-> slot.quantity]

\* parseMerchantRef returns the user, the SKU and the quantity of the request.
OrderRoundTrip(slot) ==
    parseMerchantRef(MerchantRefString(slot.merchantRef))
        = [userId |-> Digits(slot.user),
           items |-> <<[code |-> slot.merchantRef.sku, quantity |-> slot.quantity]>>]

\* C16: parsing the merchant reference a request generated returns the user id and
\* the quantity (and SKU) it was generated from, for the topup format and for the
\* orders format.
C16_MerchantRefRoundTrip ==
    /\ \A i \in 1..MaxInitiates : Generated(ini[i]) => TopupRoundTrip(ini[i])
    /\ \A i \in 1..MaxCreates : Generated(crt[i]) => OrderRoundTrip(crt[i])

(***************************************************************************)
(* POST /user/topup/calculate, the quote.  The handler checks the quantity *)
(* of the body, reads the product and answers with the pricing; it writes  *)
(* nothing.  Quantities are counts of halves here, so the arithmetic of    *)
(* the handler on a quantity such as 1.5 is exact.                         *)
(***************************************************************************)
\* if (!quantity || quantity <= 0)
CalculateQuantityInvalid(halves) == halves = 0 \/ halves <= 0

(***************************************************************************)
(* The numbers of the handler are IEEE 754 doubles.  A double is kept as   *)
(* the dyadic rational bits * 2^exp, bits being the binary digits of an    *)
(* odd natural, least significant first; zero has no digits.  Products and *)
(* differences are taken exactly and then rounded to 53 digits, to nearest *)
(* and on a tie to even, as the machine does.                              *)
(***************************************************************************)
RECURSIVE NatBits(_)
NatBits(n) == IF n = 0 THEN <<>> ELSE <<n % 2>> \o NatBits(n \div 2)

Zeros(k) == [i \in 1..k |-> 0]

\* The digits without the zeros above the highest one.
StripHigh(a) ==
    LET ones == {i \in 1..Len(a) : a[i] = 1}
    IN IF ones = {} THEN <<>>
       ELSE SubSeq(a, 1, CHOOSE i \in ones : \A j \in ones : j <= i)

Column(cols, k) == IF k <= Len(cols) THEN cols[k] ELSE 0

\* Ten columns of small counts, taken together as one number.
ChunkValue(cols, j) ==
    LET col(t) == Column(cols, 10 * j + t + 1) * 2^t
    IN col(0) + col(1) + col(2) + col(3) + col(4) + col(5) + col(6) + col(7) + col(8)
          + col(9)

\* The chunk with what the chunks below it carry into it.
RECURSIVE ChunkSum(_, _)
ChunkSum(cols, j) ==
    ChunkValue(cols, j) + (IF j = 0 THEN 0 ELSE ChunkSum(cols, j - 1) \div 1024)

\* The binary digits of the number whose columns hold the counts cols.
BitsOfColumns(counts) ==
    LET cols == counts \o <<>>
    IN StripHigh([k \in 1..(Len(cols) + 10) |->
                     (ChunkSum(cols, (k - 1) \div 10) \div 2^((k - 1) % 10)) % 2] \o <<>>)

AddBits(a, b) ==
    BitsOfColumns([k \in 1..(IF Len(a) >= Len(b) THEN Len(a) ELSE Len(b)) |->
                      Column(a, k) + Column(b, k)])

\* a - b for a >= b: a plus the complement of b plus one, less the digit above a.
SubBits(a, b) ==
    LET sum == BitsOfColumns([k \in 1..Len(a) |->
                   Column(a, k) + (1 - Column(b, k)) + (IF k = 1 THEN 1 ELSE 0)])
    IN StripHigh(SubSeq(sum, 1, Len(a)))

MulBits(a, b) ==
    IF a = <<>> \/ b = <<>>
    THEN <<>>
    ELSE BitsOfColumns([k \in 1..(Len(a) + Len(b) - 1) |->
             Cardinality({i \in 1..Len(a) :
                 /\ a[i] = 1
                 /\ k + 1 - i \in 1..Len(b)
                 /\ b[k + 1 - i] = 1})])

\* The dyadic rational digits * 2^exp in its one form.
Dyadic(digits, exp) ==
    LET ones == {i \in 1..Len(digits) : digits[i] = 1}
        low == CHOOSE i \in ones : \A j \in ones : i <= j
        high == CHOOSE i \in ones : \A j \in ones : j <= i
    IN IF ones = {}
       THEN [bits |-> <<>>, exp |-> 0]
       ELSE [bits |-> SubSeq(digits, low, high), exp |-> exp + low - 1]

DyadicMul(x, y) == Dyadic(MulBits(x.bits, y.bits), x.exp + y.exp)

\* x - y for x >= y.
DyadicSub(x, y) ==
    LET exp == IF x.exp <= y.exp THEN x.exp ELSE y.exp
    IN Dyadic(SubBits(Zeros(x.exp - exp) \o x.bits, Zeros(y.exp - exp) \o y.bits), exp)

\* The double nearest to a dyadic rational.
RoundToDouble(d) ==
    LET drop == Len(d.bits) - 53
        kept == SubSeq(d.bits, drop + 1, Len(d.bits))
        roundUp == d.bits[drop] = 1 /\ (drop >= 2 \/ kept[1] = 1)
    IN IF drop <= 0
       THEN d
       ELSE Dyadic(IF roundUp THEN AddBits(kept, <<1>>) ELSE kept, d.exp + drop)

\* What is left of r / d after c groups of eight binary digits after the point.
RECURSIVE FractionRest(_, _, _)
FractionRest(r, d, c) == IF c = 0 THEN r ELSE (FractionRest(r, d, c - 1) * 256) % d

\* Digit p after the point of r / d.
FractionDigit(r, d, p) ==
    (((FractionRest(r, d, (p - 1) \div 8) * 256) \div d) \div 2^(7 - ((p - 1) % 8))) % 2

\* The double that the literal or JSON number n / d denotes, for n / d above 2^-9:
\* 64 digits after the point and one more for what is left of the division.
DoubleOf(n, d) ==
    LET digits == [i \in 1..64 |-> FractionDigit(n % d, d, 65 - i)] \o NatBits(n \div d)
        rest == IF FractionRest(n % d, d, 8) = 0 THEN 0 ELSE 1
    IN RoundToDouble(Dyadic(<<rest>> \o digits, 0 - 65))

DoubleMul(x, y) == RoundToDouble(DyadicMul(x, y))
DoubleSub(x, y) == RoundToDouble(DyadicSub(x, y))

\* The discount of the handler: on the quantity as a count of halves.
CalculateDiscount(halves) ==
    IF halves < 2 * 5 THEN DoubleOf(0, 1)
    ELSE IF halves = 2 * 5 THEN DoubleOf(12, 100)
    ELSE IF halves > 2 * 5 /\ halves <= 2 * 10 THEN DoubleOf(20, 100)
    ELSE IF halves >= 2 * 11 /\ halves <= 2 * 19 THEN DoubleOf(25, 100)
    ELSE DoubleOf(30, 100)

\* The data of the answer for the quantity halves / 2 and products.price cents / 100.
CalculatePricing(halves, cents) ==
    LET quantity == DoubleOf(halves, 2)
        productPrice == DoubleOf(cents, 100)
        discount == CalculateDiscount(halves)
        totalAmount == DoubleMul(quantity, productPrice)
        discountAmount == DoubleMul(totalAmount, discount)
        finalAmount == DoubleSub(totalAmount, discountAmount)
    IN [price |-> productPrice, quantity |-> quantity,
        total_amount |-> totalAmount,
        discount_percentage |-> DoubleMul(discount, DoubleOf(100, 1)),
        discount_amount |-> discountAmount,
        final_amount |-> finalAmount]

\* The whole quantities of requests: a negative one, zero and those at which the tier
\* changes.  Quote requests also carry 0.5, 1.5 and 10.5.
PricingQuantities == {0 - 1, 0, 1, 4, 5, 6, 10, 11, 19, 20, 21}
QuoteHalves == {2 * q : q \in PricingQuantities} \cup {1, 3, 21}

\* products.price is DECIMAL(10,2) and is set by the administrator's product routes
\* to parseFloat of the request's price: 5000.00 as seeded, 1000.00 and 4999.99.
UnitPriceCents == {500000, 100000, 499999}

\* The pricing of every request of the model, computed once.
PricingTable ==
    [h \in {x \in QuoteHalves : ~CalculateQuantityInvalid(x)}, c \in UnitPriceCents |->
        CalculatePricing(h, c)] @@ <<>>

CalculateData(halves, cents) == PricingTable[halves, cents]

Calculate(i, halves, cents) ==
    /\ NextIdle(qte, i)
    /\ qte' = [qte EXCEPT ![i] =
                 IF CalculateQuantityInvalid(halves)
                 THEN [IdleQuote EXCEPT !.pc = "done", !.halves = halves, !.cents = cents,
                                        !.code = 400]
                 ELSE [IdleQuote EXCEPT !.pc = "done", !.halves = halves, !.cents = cents,
                                        !.code = 200, !.data = CalculateData(halves, cents)]]
    /\ UNCHANGED <<quota, active, topup, orders, installs, gw, now, ini, cb, crt, ocb, ins,
                   adm, poll, methods, syn, pat, rl, lim>>

(***************************************************************************)
(* SpecPricing: quotes and top-ups over the quantities at which the tier   *)
(* changes.  Top-ups are priced at the seeded 5000, where every double of  *)
(* the pricing is a whole number.                                          *)
(***************************************************************************)
NextPricing ==
    \/ \E i \in 1..BackgroundInitiates, u \in Users, q \in PricingQuantities :
          InitiateInvalid(i, u, q)
    \/ \E i \in 1..BackgroundInitiates, u \in Users, q \in PricingQuantities,
          pm \in PaymentMethods, r \in Rands :
          InitiateInsert(i, u, q, pm, r)
    \/ \E i \in 1..BackgroundInitiates : InitiateGatewayOk(i)
    \/ \E i \in 1..BackgroundInitiates, e \in GatewayErrors : InitiateGatewayFail(i, e)
    \/ \E i \in 1..BackgroundInitiates : InitiateUpdate(i)
    \/ \E i \in 1..BackgroundInitiates : InitiateMarkFailed(i)
    \/ \E i \in 1..MaxQuotes, h \in QuoteHalves, c \in UnitPriceCents : Calculate(i, h, c)

SpecPricing == Init /\ [][NextPricing]_vars

\* The quotes that were answered with a price for a whole quantity.
WholeQuotes == {i \in 1..MaxQuotes : qte[i].code = 200 /\ qte[i].halves % 2 = 0}

\* The tier table of the top-up pricing.
TierPercent(quantity) ==
    CASE quantity < 5 -> 0
      [] quantity = 5 -> 12
      [] quantity \in 6..10 -> 20
      [] quantity \in 11..19 -> 25
      [] OTHER -> 30

\* The double of a whole number.
WholeDouble(n) == Dyadic(NatBits(n), 0)

\* C17: the discount of a top-up is set by its whole quantity alone, 0% below 5,
\* 12% at 5, 20% for 6 to 10, 25% for 11 to 19 and 30% from 20 on, in the stored
\* transaction and in the quote alike.
C17_DiscountTiers ==
    /\ \A k \in 1..Len(topup) :
          topup[k].discount_percentage = TierPercent(topup[k].quantity)
    /\ \A i \in WholeQuotes :
          qte[i].data.discount_percentage = WholeDouble(TierPercent(qte[i].halves \div 2))

\* A top-up of 10 at 20% next to a quote for 11 at 25%.
C17_Witness ==
    /\ \E k \in 1..Len(topup) :
          topup[k].quantity = 10 /\ topup[k].discount_percentage = 20
    /\ \E i \in WholeQuotes :
          qte[i].halves = 2 * 11 /\ qte[i].data.discount_percentage = WholeDouble(25)

\* The breakdown of a quote holds to the letter: taken as exact numbers, without the
\* rounding of the machine, its amounts are the products and the difference.
ExactBreakdown(d) ==
    /\ d.total_amount = DyadicMul(d.quantity, d.price)
    /\ DyadicMul(d.discount_amount, WholeDouble(100))
          = DyadicMul(d.total_amount, d.discount_percentage)
    /\ d.final_amount = DyadicSub(d.total_amount, d.discount_amount)

\* ExactBreakdown of every priced request of the model, computed once.
ExactTable ==
    [h \in {x \in QuoteHalves : ~CalculateQuantityInvalid(x)}, c \in UnitPriceCents |->
        ExactBreakdown(CalculateData(h, c))] @@ <<>>

WholeHundredQuotes == {i \in 1..MaxQuotes : qte[i].code = 200 /\ qte[i].cents % 10000 = 0}

PositiveInteger(halves) == halves % 2 = 0 /\ halves >= 2

\* C19: a quantity that is not a positive integer, be it zero, negative or fractional,
\* is rejected by the quote and by the top-up with the invalid-quantity answer 400,
\* and such a top-up inserts no transaction and calls the gateway not once.
C19_InvalidQuantityRejected ==
    /\ \A i \in 1..MaxQuotes :
          (qte[i].pc = "done" /\ ~PositiveInteger(qte[i].halves)) => qte[i].code = 400
    /\ \A i \in 1..MaxInitiates :
          (ini[i].pc # "idle" /\ ~PositiveInteger(2 * ini[i].quantity))
             => /\ ini[i].code = 400
                /\ ini[i].lastID = 0
                /\ ini[i].gwCalls = 0
                /\ \A k \in 1..Len(topup) : topup[k].quantity # ini[i].quantity


(***************************************************************************)
(* Payment methods.  The table is filled from the gateway's channels: the  *)
(* administrator's sync and the listing of a user, when it finds nothing   *)
(* enabled, walk the channels and update or insert a row for each; the     *)
(* administrator's PATCH sets is_enabled of one method.                    *)
(***************************************************************************)
\* A channel of the gateway; version stands for its name, icon and fee data of the day.
Channel(code, version) ==
    [code |-> code, name |-> <<code, version>>, type |-> "channel", icon_url |-> version,
     fee_flat |-> version, fee_percent |-> 0, minimum_fee |-> 0, maximum_fee |-> 0]

\* tripayService.getPaymentChannels(): the channels, or nothing when the call failed.
ChannelLists ==
    {<<>>,
     <<Channel("BRIVA", 1), Channel("QRIS", 1)>>,
     <<Channel("BRIVA", 2), Channel("QRIS", 2)>>,
     <<Channel("QRIS", 2)>>}

MethodCodes == {"BRIVA", "QRIS"}

\* SELECT * FROM payment_methods WHERE code = ?
MethodRows(code) == {k \in 1..Len(methods) : methods[k].code = code}

\* INSERT INTO payment_methods (...) VALUES (...)
NewMethodRow(id, channel, enabled) ==
    [id |-> id, code |-> channel.code, name |-> channel.name, type |-> channel.type,
     icon_url |-> channel.icon_url, fee_flat |-> channel.fee_flat,
     fee_percent |-> channel.fee_percent, minimum_fee |-> channel.minimum_fee,
     maximum_fee |-> channel.maximum_fee, is_enabled |-> enabled]

\* The row written over as a new one would be.
ReplaceMethod(row, channel) == NewMethodRow(row.id, channel, TRUE)

\* UPDATE payment_methods SET name, type, icon_url, fee_flat, fee_percent, minimum_fee,
\* maximum_fee WHERE code = ?
UpdateMethod(row, channel) ==
    [row EXCEPT !.name = channel.name, !.type = channel.type,
                !.icon_url = channel.icon_url, !.fee_flat = channel.fee_flat,
                !.fee_percent = channel.fee_percent, !.minimum_fee = channel.minimum_fee,
                !.maximum_fee = channel.maximum_fee]

\* The UPDATE without its WHERE.
UpdateAllMethods(channel) ==
    [k \in 1..Len(methods) |-> UpdateMethod(methods[k], channel)]

\* The table after the UPDATE: WHERE code = ? picks the rows of the channel's code.
UpdateMethods(channel) ==
    [k \in 1..Len(methods) |->
        IF methods[k].code = channel.code
        THEN UpdateMethod(methods[k], channel)
        ELSE methods[k]]

\* POST /payment-methods/sync: the channels are fetched.
SyncFetch(i, channels) ==
    /\ NextIdle(syn, i)
    /\ syn' = [syn EXCEPT ![i] = [IdleSync EXCEPT !.pc = "select", !.kind = "admin",
                                    !.channels = channels, !.index = 1]]
    /\ UNCHANGED <<quota, active, topup, orders, installs, gw, now, ini, cb, crt, ocb, ins,
                   adm, poll, qte, methods, pat, rl, lim>>

\* GET /payment-methods/enabled: the enabled methods are answered, and when there are
\* none the handler goes on to sync.
EnabledSelect(i) ==
    /\ NextIdle(syn, i)
    /\ syn' = [syn EXCEPT ![i] =
                 IF \E k \in 1..Len(methods) : methods[k].is_enabled
                 THEN [IdleSync EXCEPT !.pc = "done", !.kind = "user", !.code = 200]
                 ELSE [IdleSync EXCEPT !.pc = "fetch", !.kind = "user"]]
    /\ UNCHANGED <<quota, active, topup, orders, installs, gw, now, ini, cb, crt, ocb, ins,
                   adm, poll, qte, methods, pat, rl, lim>>

EnabledFetch(i, channels) ==
    /\ syn[i].pc = "fetch"
    /\ syn' = [syn EXCEPT ![i].pc = "select", ![i].channels = channels, ![i].index = 1]
    /\ UNCHANGED <<quota, active, topup, orders, installs, gw, now, ini, cb, crt, ocb, ins,
                   adm, poll, qte, methods, pat, rl, lim>>

\* The loop looks the next channel up, or has walked them all and the handler answers.
SyncSelect(i) ==
    /\ syn[i].pc = "select"
    /\ syn' = [syn EXCEPT ![i] =
                 IF syn[i].index > Len(syn[i].channels)
                 THEN [@ EXCEPT !.pc = "done", !.code = 200]
                 ELSE [@ EXCEPT !.pc = "write",
                                !.existingMethod =
                                    MethodRows(syn[i].channels[syn[i].index].code) # {}]]
    /\ UNCHANGED <<quota, active, topup, orders, installs, gw, now, ini, cb, crt, ocb, ins,
                   adm, poll, qte, methods, pat, rl, lim>>

\* The loop updates the row it found, or inserts an enabled one; code is UNIQUE, so
\* the INSERT throws when the row has come to be meanwhile, and the handler answers 500.
SyncWrite(i) ==
    /\ syn[i].pc = "write"
    /\ LET channel == syn[i].channels[syn[i].index]
       IN IF syn[i].existingMethod
          THEN /\ methods' = UpdateMethods(channel)
               /\ syn' = [syn EXCEPT ![i].pc = "select", ![i].index = @ + 1,
                                     ![i].syncedCount = @ + 1]
          ELSE IF MethodRows(channel.code) # {}
          THEN /\ syn' = [syn EXCEPT ![i].pc = "done", ![i].code = 500]
               /\ UNCHANGED methods
          ELSE /\ methods' = Append(methods, NewMethodRow(Len(methods) + 1, channel, TRUE))
               /\ syn' = [syn EXCEPT ![i].pc = "select", ![i].index = @ + 1,
                                     ![i].newCount = @ + 1]
    /\ UNCHANGED <<quota, active, topup, orders, installs, gw, now, ini, cb, crt, ocb, ins,
                   adm, poll, qte, pat, rl, lim>>

\* PATCH /payment-methods/:code: the method is looked up.
PatchSelect(i, code, enabled) ==
    /\ NextIdle(pat, i)
    /\ pat' = [pat EXCEPT ![i] =
                 [IdlePatch EXCEPT !.pc = IF MethodRows(code) # {} THEN "update" ELSE "fetch",
                                   !.methodCode = code, !.is_enabled = enabled]]
    /\ UNCHANGED <<quota, active, topup, orders, installs, gw, now, ini, cb, crt, ocb, ins,
                   adm, poll, qte, methods, syn, rl, lim>>

\* UPDATE payment_methods SET is_enabled = ? WHERE code = ?
PatchUpdate(i) ==
    /\ pat[i].pc = "update"
    /\ methods' = [k \in 1..Len(methods) |->
                     IF methods[k].code = pat[i].methodCode
                     THEN [methods[k] EXCEPT !.is_enabled = pat[i].is_enabled]
                     ELSE methods[k]]
    /\ pat' = [pat EXCEPT ![i].pc = "done", ![i].code = 200]
    /\ UNCHANGED <<quota, active, topup, orders, installs, gw, now, ini, cb, crt, ocb, ins,
                   adm, poll, qte, syn, rl, lim>>

\* The method is not in the table: its channel is fetched, 404 when the gateway has none.
PatchFetch(i, channels) ==
    /\ pat[i].pc = "fetch"
    /\ pat' = [pat EXCEPT ![i] =
                 IF \E n \in 1..Len(channels) : channels[n].code = pat[i].methodCode
                 THEN [@ EXCEPT !.pc = "insert", !.channels = channels]
                 ELSE [@ EXCEPT !.pc = "done", !.code = 404]]
    /\ UNCHANGED <<quota, active, topup, orders, installs, gw, now, ini, cb, crt, ocb, ins,
                   adm, poll, qte, methods, syn, rl, lim>>

PatchInsert(i) ==
    /\ pat[i].pc = "insert"
    /\ LET n == CHOOSE n \in 1..Len(pat[i].channels) :
                   pat[i].channels[n].code = pat[i].methodCode
       IN IF MethodRows(pat[i].methodCode) # {}
          THEN /\ pat' = [pat EXCEPT ![i].pc = "done", ![i].code = 500]
               /\ UNCHANGED methods
          ELSE /\ methods' = Append(methods, NewMethodRow(Len(methods) + 1,
                                                         pat[i].channels[n],
                                                         pat[i].is_enabled))
               /\ pat' = [pat EXCEPT ![i].pc = "done", ![i].code = 200]
    /\ UNCHANGED <<quota, active, topup, orders, installs, gw, now, ini, cb, crt, ocb, ins,
                   adm, poll, qte, syn, rl, lim>>

(***************************************************************************)
(* SpecSync: syncs of both kinds next to the administrator's PATCH.        *)
(***************************************************************************)
NextSync ==
    \/ \E i \in 1..MaxSyncs, channels \in ChannelLists : SyncFetch(i, channels)
    \/ \E i \in 1..MaxSyncs : EnabledSelect(i)
    \/ \E i \in 1..MaxSyncs, channels \in ChannelLists : EnabledFetch(i, channels)
    \/ \E i \in 1..MaxSyncs : SyncSelect(i)
    \/ \E i \in 1..MaxSyncs : SyncWrite(i)
    \/ \E i \in 1..MaxPatches, code \in MethodCodes, enabled \in BOOLEAN :
          PatchSelect(i, code, enabled)
    \/ \E i \in 1..MaxPatches : PatchUpdate(i)
    \/ \E i \in 1..MaxPatches, channels \in ChannelLists : PatchFetch(i, channels)
    \/ \E i \in 1..MaxPatches : PatchInsert(i)

SpecSync == Init /\ [][NextSync]_vars

\* C20: a sync, the administrator's or the one of the listing, leaves is_enabled of
\* every method that is in the table as it is, whatever name, type, icon and fee data
\* it writes for the same code, and the methods it inserts are enabled.
C20_SyncKeepsEnabled ==
    [][syn' # syn
          => /\ Len(methods') >= Len(methods)
             /\ \A k \in 1..Len(methods) :
                   /\ methods'[k].code = methods[k].code
                   /\ methods'[k].is_enabled = methods[k].is_enabled
             /\ \A k \in (Len(methods) + 1)..Len(methods') : methods'[k].is_enabled]_vars

\* A sync that updated the two methods of the table and inserted none has answered,
\* and a method it wrote new fee data for is disabled still.
C20_Witness ==
    \E i \in 1..MaxSyncs, k \in 1..Len(methods) :
        /\ syn[i].pc = "done" /\ syn[i].code = 200
        /\ syn[i].syncedCount = 2 /\ syn[i].newCount = 0
        /\ ~methods[k].is_enabled
        /\ \E n \in 1..Len(syn[i].channels) :
              /\ syn[i].channels[n].code = methods[k].code
              /\ syn[i].channels[n].fee_flat = 2
              /\ methods[k].fee_flat = 2


\* C21: syncs run side by side, and a sync next to the PATCH that creates a missing
\* method, all end without an error, and the table holds one row for a code at most.
C21_ConcurrentSyncSafe ==
    /\ \A i \in 1..MaxSyncs : syn[i].pc = "done" => syn[i].code = 200
    /\ \A i \in 1..MaxPatches : pat[i].pc = "done" => pat[i].code \in {200, 404}
    /\ \A code \in MethodCodes : Cardinality(MethodRows(code)) <= 1


\* The codes that the channels of a sync name.
ChannelCodes(channels) == {channels[n].code : n \in 1..Len(channels)}

\* C22: a step of a sync deletes no method and leaves every method whose code is not
\* among its channels as it is; a sync whose listing came back empty ends with the
\* table as it was and reports nothing updated and nothing inserted.
C22_AbsentMethodsUntouched ==
    [][\A i \in 1..MaxSyncs :
          syn'[i] # syn[i]
             => /\ Len(methods') >= Len(methods)
                /\ \A k \in 1..Len(methods) :
                      methods[k].code \notin ChannelCodes(syn'[i].channels)
                         => methods'[k] = methods[k]
                /\ (syn'[i].pc = "done" /\ syn'[i].channels = <<>>)
                      => /\ methods' = methods
                         /\ syn'[i].syncedCount = 0
                         /\ syn'[i].newCount = 0]_vars

\* A sync of QRIS alone has ended next to a BRIVA row that kept its data, and an
\* administrator's sync with an empty listing has ended on a table with rows.
C22_Witness ==
    \E i, j \in 1..MaxSyncs :
        /\ syn[i].pc = "done" /\ syn[i].code = 200
        /\ syn[i].channels = <<Channel("QRIS", 2)>>
        /\ \E k \in 1..Len(methods) : methods[k].code = "BRIVA" /\ methods[k].fee_flat = 1
        /\ syn[j].pc = "done" /\ syn[j].kind = "admin" /\ syn[j].code = 200
        /\ syn[j].channels = <<>>


(***************************************************************************)
(* DELETE /user/account.  The users row is deleted and, foreign keys being *)
(* on, the rows of topup_transactions, orders and install_data that refer  *)
(* to it go with it.  Ids are AUTOINCREMENT and not given out again: a row *)
(* that is gone keeps its place in the sequence under the id 0.            *)
(***************************************************************************)
Cascade(rows, owned) ==
    [k \in 1..Len(rows) |-> IF k \in owned THEN [rows[k] EXCEPT !.id = 0] ELSE rows[k]]

\* The user has no top-up request under way.
NoInitiateUnderWay(userId) ==
    \A i \in 1..MaxInitiates : ini[i].user = userId => ini[i].pc \in {"idle", "done"}

DeleteAccount(userId) ==
    /\ active[userId]
    /\ NoInitiateUnderWay(userId)
    /\ active' = [active EXCEPT ![userId] = FALSE]
    /\ quota' = [quota EXCEPT ![userId] = 0]
    /\ installs' = [installs EXCEPT ![userId] = 0]
    /\ topup' = Cascade(topup, {k \in 1..Len(topup) : topup[k].user_id = userId})
    /\ orders' = Cascade(orders, {k \in 1..Len(orders) : orders[k].uid = userId})
    /\ UNCHANGED <<gw, now, ini, cb, crt, ocb, ins, adm, poll, qte, methods, syn, pat, rl, lim>>

(***************************************************************************)
(* SpecAccount: top-ups of users who may delete their account.             *)
(***************************************************************************)
NextAccount ==
    \/ InitiateStep(MaxInitiates)
    \/ \E u \in Users : DeleteAccount(u)

SpecAccount == Init /\ [][NextAccount]_vars

\* C23: a topup transaction that has been created is in the table in every later
\* state: no step removes it.
C23_TopupAppendOnly ==
    [][\A k \in 1..Len(topup) :
          topup[k].id = k => (k <= Len(topup') /\ topup'[k].id = k)]_vars

(***************************************************************************)
(* SpecCredit: PAID callbacks, delivered and redelivered, whose quota       *)
(* credit may fail in the database.                                        *)
(***************************************************************************)
\* incrementUserQuota throws (its SELECT or its UPDATE fails): the handler's catch
\* answers 500.  The status UPDATE before it stays.
PaymentCallbackCreditFails(c) ==
    /\ cb[c].pc \in {"getQuota", "updateQuota"}
    /\ cb' = [cb EXCEPT ![c] = Answered(cb[c], 500)]
    /\ UNCHANGED <<quota, active, topup, orders, installs, gw, now, ini, crt, ocb, ins, adm, poll, qte, methods, syn, pat, rl, lim>>

NextCredit ==
    \/ InitiateStep(BackgroundInitiates)
    \/ \E c \in 1..MaxCallbacks, m \in PaidCallbacks :
          PaymentCallbackReceive(c, m.raw, m.signature)
    \/ PaymentCallbackStep(MaxCallbacks)
    \/ \E c \in 1..MaxCallbacks : PaymentCallbackCreditFails(c)

SpecCredit == Init /\ [][NextCredit]_vars

\* The PAID deliveries that reached row id.
PaidDeliveries(id) ==
    {c \in CallbackSlots :
        cb[c].pc # "idle" /\ cb[c].txId = id /\ Body(cb[c]).status = "PAID"}

\* C24: when every delivery for a PAID record has answered, either one of them
\* credited and the owner's balance holds the record's quantity once, or none
\* credited, the balance is untouched and a delivery was answered with an error.
C24_FailedCreditNeverSilent ==
    \A id \in 1..Len(topup) :
        LET D == PaidDeliveries(id)
        IN (topup[id].status = "PAID" /\ \A c \in D : cb[c].pc = "done")
           => IF \E c \in D : Credited(cb[c])
              THEN quota[topup[id].user_id] = topup[id].quantity
              ELSE /\ quota[topup[id].user_id] = 0
                   /\ \E c \in D : cb[c].code = 500

(***************************************************************************)
(* SpecInstall: concurrent POST /install requests of users that hold       *)
(* InitialQuota, with payment credits beside them.                         *)
(***************************************************************************)
NextInstall ==
    \/ InitiateStep(BackgroundInitiates)
    \/ \E c \in 1..BackgroundCallbacks, m \in PaidCallbacks :
          PaymentCallbackReceive(c, m.raw, m.signature)
    \/ PaymentCallbackStep(BackgroundCallbacks)
    \/ InstallStep(MaxInstalls)

SpecInstall == InitFunded /\ [][NextInstall]_vars

\* C25: a user never has more install records than the quota they have held: the
\* initial balance plus the quantities credited to them.
C25_InstallsWithinQuota ==
    \A u \in Users : installs[u] <= InitialQuota + CreditsTo(u, BackgroundCallbacks)

(***************************************************************************)
(* SpecCreate: POST /payment/create, the customer's payment at the gateway *)
(* and the gateway's callbacks for paid transactions, delivered one after  *)
(* the other.                                                              *)
(***************************************************************************)
\* The gateway's transactions of the orders flow.
OrderTransactions == {n \in 1..Len(gw) : gw[n].merchant_ref.fmt = "order"}

\* The callback the gateway sends for a transaction that was paid.
PaidOrderCallbacks ==
    {Signed(CallbackContent(Ref(n), gw[n].merchant_ref, "PAID", 1)) :
        n \in {j \in OrderTransactions : gw[j].status = "PAID"}}

\* No orders callback is being handled.
NoOrderCallbackUnderWay == \A c \in 1..MaxOrderCallbacks : ocb[c].pc \in {"idle", "done"}

NextCreate ==
    \/ CreateStep(MaxCreates)
    \/ \E n \in 1..MaxCreates : GatewayPay(n)
    \/ \E c \in 1..MaxOrderCallbacks, m \in PaidOrderCallbacks :
          NoOrderCallbackUnderWay
          /\ OrderCallbackReceive(c, m.raw, m.signature, "payment_status")
    \/ OrderCallbackStep

SpecCreate == Init /\ [][NextCreate]_vars

\* The create request that obtained transaction n has not yet run its INSERT.
InsertPending(n) ==
    \E i \in 1..MaxCreates : crt[i].pc = "insert" /\ crt[i].gwResponse.reference = Ref(n)

\* C26: every unpaid gateway transaction of the orders flow whose create request has
\* run its INSERT has an order row in 'processing' under its merchant_ref.
C26_PayableTransactionHasOrder ==
    \A n \in OrderTransactions :
        (gw[n].status = "UNPAID" /\ ~InsertPending(n))
        => \E k \in 1..Len(orders) :
              /\ orders[k].merchant_ref = gw[n].merchant_ref
              /\ orders[k].status = "processing"

(***************************************************************************)
(* SpecOrders: orders of the generic flow and the gateway's closed-payment *)
(* callbacks for them, of any final status and repeated, handled one after *)
(* the other.                                                              *)
(***************************************************************************)
OrderCallbacks ==
    {Signed(CallbackContent(Ref(n), gw[n].merchant_ref, s, 1)) :
        n \in OrderTransactions, s \in CallbackStatuses}

NextOrders ==
    \/ CreateStep(MaxCreates)
    \/ \E c \in 1..MaxOrderCallbacks, m \in OrderCallbacks :
          NoOrderCallbackUnderWay
          /\ OrderCallbackReceive(c, m.raw, m.signature, "payment_status")
    \/ OrderCallbackStep

SpecOrders == Init /\ [][NextOrders]_vars

\* The quantities of the first n orders that belong to user u and are paid.
RECURSIVE PaidQuantity(_, _)
PaidQuantity(u, n) ==
    IF n = 0 THEN 0
    ELSE PaidQuantity(u, n - 1)
         + (IF orders[n].uid = u /\ orders[n].status = "paid" THEN orders[n].quantity
            ELSE 0)

\* The callback in slot c is about to look its order up and none is in 'processing'.
LateCallback(c) ==
    /\ ocb[c].pc = "select"
    /\ FindProcessingOrder(parseMerchantRefUserId(Body(ocb[c]).merchant_ref),
                           Body(ocb[c]).merchant_ref) = 0

\* C27: with callbacks handled one after the other, an order that has left
\* 'processing' never changes again, a callback that finds no order in 'processing'
\* is answered 404 and changes no order and no quota, and between callbacks every
\* user's quota is the sum of the quantities of their paid orders.
C27_OrderProcessedOnce ==
    /\ [](NoOrderCallbackUnderWay
            => \A u \in Users : quota[u] = PaidQuantity(u, Len(orders)))
    /\ [][/\ \A k \in 1..Len(orders) :
                orders[k].status # "processing" => orders'[k] = orders[k]
          /\ \A c \in 1..MaxOrderCallbacks :
                (LateCallback(c) /\ ocb'[c] # ocb[c])
                => /\ ocb'[c].pc = "done"
                   /\ ocb'[c].code = 404
                   /\ orders' = orders
                   /\ quota' = quota]_vars

\* A PAID callback was processed and credited, and the callback after it for the same
\* merchant_ref was answered 404.
C27_Witness ==
    /\ Credited(ocb[1])
    /\ ocb[2].pc = "done"
    /\ ocb[2].code = 404
    /\ Body(ocb[2]).merchant_ref = Body(ocb[1]).merchant_ref
    /\ quota[ocb[1].userId] = orders[ocb[1].txId].quantity

\* C28: a topup transaction has paid_at set exactly when its status is PAID, in every
\* reachable state of Initiate requests and callbacks in any interleaving.
C28_PaidAtIffPaid ==
    \A k \in 1..Len(topup) : (topup[k].paid_at # NULL) <=> (topup[k].status = "PAID")

\* A transaction was PAID with paid_at set when a callback of another status found
\* it, and that callback's UPDATE has cleared paid_at.
C28_Witness ==
    \E c \in CallbackSlots :
        /\ cb[c].pc = "done"
        /\ cb[c].code = 200
        /\ cb[c].txStatus = "PAID"
        /\ Body(cb[c]).status = "EXPIRED"
        /\ topup[cb[c].txId].status = "EXPIRED"
        /\ topup[cb[c].txId].paid_at = NULL

(***************************************************************************)
(* RateLimiter.checkRateLimit(key, maxRequests, windowSeconds) for one     *)
(* key, as createRateLimitMiddleware calls it.  Each Redis command is one  *)
(* step; rl.ttl is the key's remaining seconds, NoExpiry for a key that    *)
(* has no expiry.                                                          *)
(***************************************************************************)
\* What TTL answers for a key without expiry.
NoExpiry == 0 - 1

\* What TTL answers for a key that does not exist.
NoSuchKey == 0 - 2

LimitFrame ==
    UNCHANGED <<quota, active, topup, orders, installs, gw, now, ini, cb, crt, ocb, ins,
                adm, poll, qte, methods, syn, pat>>

\* const current = await client.get(rateLimitKey), and the branch taken on it.
CheckRateLimitGet(i) ==
    /\ NextIdle(lim, i)
    /\ lim' = [lim EXCEPT ![i] =
                 IF ~rl.exists
                 THEN [IdleLimit EXCEPT !.pc = "setEx"]
                 ELSE IF rl.value >= MaxRequests
                 THEN [IdleLimit EXCEPT !.pc = "ttl", !.current = [value |-> rl.value]]
                 ELSE [IdleLimit EXCEPT !.pc = "incr", !.current = [value |-> rl.value],
                                        !.allowed = TRUE,
                                        !.remaining = MaxRequests - rl.value - 1]]
    /\ UNCHANGED rl
    /\ LimitFrame

\* await client.setEx(rateLimitKey, windowSeconds, '1'); allowed.
CheckRateLimitSetEx(i) ==
    /\ lim[i].pc = "setEx"
    /\ rl' = [exists |-> TRUE, value |-> 1, ttl |-> WindowSeconds]
    /\ lim' = [lim EXCEPT ![i].pc = "done", ![i].allowed = TRUE,
                          ![i].remaining = MaxRequests - 1, ![i].ttl = WindowSeconds]
    /\ LimitFrame

\* INCR adds one to the key's value and keeps its expiry; on a key that does not
\* exist it creates the key with value 1 and no expiry.
Incr(key) ==
    IF key.exists THEN [key EXCEPT !.value = @ + 1]
    ELSE [exists |-> TRUE, value |-> 1, ttl |-> NoExpiry]

\* await client.incr(rateLimitKey)
CheckRateLimitIncr(i) ==
    /\ lim[i].pc = "incr"
    /\ rl' = Incr(rl)
    /\ lim' = [lim EXCEPT ![i].pc = "ttl"]
    /\ LimitFrame

\* const ttl = await client.ttl(rateLimitKey), then the return.
CheckRateLimitTtl(i) ==
    /\ lim[i].pc = "ttl"
    /\ lim' = [lim EXCEPT ![i].pc = "done",
                          ![i].ttl = IF rl.exists THEN rl.ttl ELSE NoSuchKey]
    /\ UNCHANGED rl
    /\ LimitFrame

\* One second passes in Redis: a key with an expiry comes a second closer to it and
\* is deleted when it is reached.
RedisSecond ==
    /\ rl.exists
    /\ rl.ttl > 0
    /\ rl' = IF rl.ttl = 1 THEN NoKey ELSE [rl EXCEPT !.ttl = @ - 1]
    /\ UNCHANGED lim
    /\ LimitFrame

CheckRateLimitStep ==
    \/ \E i \in 1..MaxLimitCalls : CheckRateLimitGet(i)
    \/ \E i \in 1..MaxLimitCalls : CheckRateLimitSetEx(i)
    \/ \E i \in 1..MaxLimitCalls : CheckRateLimitIncr(i)
    \/ \E i \in 1..MaxLimitCalls : CheckRateLimitTtl(i)

(***************************************************************************)
(* SpecLimit: calls for one key inside one window, no second passing.      *)
(* SpecWindow: the same calls while the seconds of the window pass, which  *)
(* Redis' clock always does.                                               *)
(***************************************************************************)
NextLimit == CheckRateLimitStep

SpecLimit == Init /\ [][NextLimit]_vars

NextWindow ==
    \/ CheckRateLimitStep
    \/ RedisSecond

SpecWindow == Init /\ [][NextWindow]_vars /\ WF_vars(RedisSecond)

\* The calls that returned allowed = true.
AllowedCalls == {i \in 1..MaxLimitCalls : lim[i].pc = "done" /\ lim[i].allowed}

\* C29: of the calls for one key inside one window, at most maxRequests return
\* allowed = true.
C29_AtMostMaxRequestsAllowed == Cardinality(AllowedCalls) <= MaxRequests

\* The key's counter has reached maxRequests: a call reading it now is refused.
RateLimited == rl.exists /\ rl.value >= MaxRequests

\* C30: the counter key has an expiry whenever it exists, and a key that is rate
\* limited is eventually allowed again.
C30_EventuallyAllowedAgain ==
    /\ [](rl.exists => rl.ttl # NoExpiry)
    /\ (RateLimited ~> ~RateLimited)

=============================================================================
